---- MODULE Spec2Model ----
(***************************************************************************)
(* The class-time scheduling and geofence verification engine of           *)
(* server.js: the minute scan (scanAndQueueClasses), the in-memory job     *)
(* queue and its two timers (queueLocationRequest), the evaluator          *)
(* (checkAndMarkAttendance) and the location ingest (POST /api/location).  *)
(*                                                                         *)
(* Time is counted in minutes.  `now` is the real (UTC) instant; a Date    *)
(* object is modelled by the instant it holds.  The server's local time    *)
(* zone is UTC, which is what getISTDate presupposes.  Every await of the  *)
(* source is a point where other handlers may run, so every handler is cut *)
(* into one action per Firestore/FCM round trip; a read of documents that  *)
(* nothing in the engine writes (users, subjects) is taken together with   *)
(* the round trip that follows it.                                         *)
(***************************************************************************)
EXTENDS Integers, Sequences, FiniteSets, Bags, TLC

VARIABLES
    now,        \* the real instant, in minutes since 00:00 UTC of day 1 of month 0
    subjects,   \* unit -> the subject document's `schedule` (and flag), read only
    scheduleCollection, \* documents of the `schedule` collection (persisted-schedule variant)
    processedClasses,   \* keys of the classes a scan has queued (duplicate-suppression-set variant)
    sentNotifications,  \* keys of the classes whose request was sent (the same variant)
    classLoc,   \* unit -> the subject document's `location` field
    att,        \* <<unit, monthYear>> -> attendance document (present / absent arrays)
    locations,  \* unit -> freshest document of the `locations` collection for the unit
    queue,      \* locationRequestQueue: key -> entry
    jobs,       \* armed timers and running timer callbacks of queueLocationRequest
    scans,      \* executions of scanAndQueueClasses in progress
    evals,      \* executions of checkAndMarkAttendance in progress
    posts,      \* executions of the POST /api/location handler in progress
    restarts,   \* number of process restarts so far
    hist        \* history: what was dispatched, what failed, which duplicates were refused

vars == <<now, subjects, scheduleCollection, processedClasses, sentNotifications, classLoc, att, locations, queue, jobs, scans, evals, posts, restarts, hist>>

----------------------------------------------------------------------------
(* Bounds of the model *)

MaxClock == 6       \* minutes the clock may advance from StartClock
MaxScanLag == 1     \* minute turns one attendance read of a scan may last through
MaxLag == 0         \* minute turns any other Firestore/FCM round trip may last through
MaxScans == 2       \* scans in progress at once
MaxRestarts == 1    \* process restarts
MaxPosts == 1       \* POST /api/location handlers in progress at once
MaxTests == 1       \* POST /api/test-attendance handlers in progress at once
MaxNight == 6       \* minutes the clock may advance in a run late in the day
MaxPersistClock == 2    \* minutes the clock may advance in a run of the persisted-schedule variant
MaxListeners == 2       \* callbacks of the locations listener in progress at once
MaxStartClock == 3      \* minutes the clock may advance in a run of the start-time queue variant

----------------------------------------------------------------------------
(* Program constants *)

IstOffsetMin == 330     \* 5.5 * 60 minutes
GraceMin == 5           \* setTimeout(..., 5 * 60 * 1000)
WindowMin == 10         \* istNow - 10 * 60 * 1000
DefaultAccuracy == 50   \* location?.accuracy || 50
CmPerUnit == 1112       \* 6371e3 * PI / 180 metres per degree; one coordinate unit = 1e-4 degree
DaysPerMonth == 31
MinutesPerDay == 24 * 60

----------------------------------------------------------------------------
(* Sequences *)

Put(b, r) == b (+) SetToBag({r})

Take(b, r) == b (-) SetToBag({r})

Includes(arr, x) == \E i \in DOMAIN arr : arr[i] = x

Occurrences(arr, x) == Cardinality({i \in DOMAIN arr : arr[i] = x})

----------------------------------------------------------------------------
(* The database content that the engine only reads *)

\* usersSnapshot.docs: user u0 has no push address, user u1 has one
UserList == <<"u0", "u1">>

\* userData.fcmToken; "" stands for a field that is absent
FcmToken(u) == IF u = "u1" THEN "t1" ELSE ""

HasFcmTokenUntested(u) == TRUE

\* the test !fcmToken of line 281, negated
HasFcmToken(u) == FcmToken(u) # ""

\* the order in which a subjects query returns the documents
SubjectOrder == <<"s1", "s2">>

\* subjectsSnapshot.docs of user u
SubjectList(u) == SelectSeq(SubjectOrder, LAMBDA s : <<u, s>> \in DOMAIN subjects)

\* the (user, subject) pairs of the database
Units == DOMAIN subjects

DayNames == <<"Sunday", "Monday", "Tuesday", "Wednesday", "Thursday", "Friday", "Saturday">>

\* key.toLowerCase() for the day keys of the documents
toLowerCase(key) ==
    IF key \in {"Monday", "monday", "MONDAY"} THEN "monday"
    ELSE IF key \in {"Tuesday", "tuesday", "TUESDAY"} THEN "tuesday"
    ELSE key

\* Number(s) of a string s that is not a numeral
\* (a value no difference of two minutes of a day takes)
NaN == -100000

\* A time string is the sequence Number maps its ':'-separated parts to:
\* "10:00" is <<10, 0>>, "abc" is <<NaN>>, "10:xx" is <<10, NaN>>; <<>> is the
\* empty string or a missing field.
\* A day entry of subjectData.schedule is [shape, items]: shape "list" is an array
\* of {start, end} objects, shape "object" one such object, shape "string" a string
\* "start-end" whose items[1] holds the two parts split('-') yields (end <<>>
\* when there is no '-').
ClassTime(start, end) == [start |-> start, end |-> end]

DayEntry(shape, items) == [shape |-> shape, items |-> items]

\* a subject document: schedule maps day keys to day entries
SubjectDoc(key, entry, flag) == [schedule |-> [k \in {key} |-> entry], autoVerify |-> flag]

\* the subject every claim about timers and decisions is checked with:
\* one class on Monday, 10:00 to 10:10
StandardDoc ==
    SubjectDoc("Monday", DayEntry("list", <<ClassTime(<<10, 0>>, <<10, 10>>)>>), "unset")

\* subjectData.schedule
Schedule(unit) == subjects[unit].schedule

NoLocation == [has |-> FALSE, latitude |-> 0, longitude |-> 0, accuracy |-> 0]

ClassLocChoices ==
    {NoLocation, [has |-> TRUE, latitude |-> 10, longitude |-> 10, accuracy |-> 0]}

\* request bodies of POST /api/location: coordinates in units of 1e-4 degree
SampleInputs == {[latitude |-> 10, longitude |-> 10], [latitude |-> 15, longitude |-> 10]}

\* the instant at which the clock of Asia/Kolkata shows h:m on day 1 of month 0
ClockAt(h, m) == (h * 60 + m) - IstOffsetMin

StartClock == ClockAt(10, 4)

\* the instant at which that clock shows h:m on the given day of month 0
ClockOn(day, h, m) == (day - 1) * MinutesPerDay + ClockAt(h, m)

----------------------------------------------------------------------------
(* Dates *)

getISTDate(t) == t + IstOffsetMin

\* getHours() * 60 + getMinutes() of a Date
MinutesOfDay(d) == d % MinutesPerDay

getDate(d) == ((d \div MinutesPerDay) % DaysPerMonth) + 1

\* toISOString().split('T')[0], as a day number
IsoDate(d) == d \div MinutesPerDay

\* toLocaleString('en-US', {month: 'long', timeZone: 'Asia/Kolkata'}) + getFullYear():
\* the month of the instant as seen in Asia/Kolkata (the model stays within one year)
MonthYear(d) == (d + IstOffsetMin) \div (MinutesPerDay * DaysPerMonth)

\* days[istDate.getDay()]; day 1 of month 0 is a Monday
getCurrentDay(d) == DayNames[(((d \div MinutesPerDay) + 1) % 7) + 1]

\* const [hours, minutes] = timeStr.split(':').map(Number); hours * 60 + minutes
timeToMinutes(timeStr) ==
    IF Len(timeStr) >= 2 /\ timeStr[1] # NaN /\ timeStr[2] # NaN
    THEN timeStr[1] * 60 + timeStr[2]
    ELSE NaN

----------------------------------------------------------------------------
(* Geo math *)

Abs(x) == IF x < 0 THEN -x ELSE x

RECURSIVE SqrtIter(_, _)
SqrtIter(x, r) ==
    LET r2 == (r + x \div r) \div 2
    IN IF r2 >= r THEN r ELSE SqrtIter(x, r2)

ISqrt(x) == IF x = 0 THEN 0 ELSE SqrtIter(x, x)

\* Distance in centimetres.  Near the equator and over a few hundred metres the
\* haversine distance is R * sqrt(dphi^2 + dlambda^2) to within a centimetre.
calculateDistance(lat1, lon1, lat2, lon2) ==
    LET dlat == Abs(lat2 - lat1) * CmPerUnit
        dlon == Abs(lon2 - lon1) * CmPerUnit
    IN IF dlon = 0 THEN dlat
       ELSE IF dlat = 0 THEN dlon
       ELSE ISqrt(dlat * dlat + dlon * dlon)

\* !classLat || !classLon
ClassLocationMissing(loc) == ~loc.has \/ loc.latitude = 0 \/ loc.longitude = 0

\* location?.accuracy || 50, in centimetres
accuracyThreshold(loc) ==
    (IF loc.has /\ loc.accuracy # 0 THEN loc.accuracy ELSE DefaultAccuracy) * 100

\* the boundary left out
WithinThresholdStrict(distance, threshold) == distance < threshold

\* distance <= accuracyThreshold
WithinThreshold(distance, threshold) == distance <= threshold

WithinRange(lat, lon, loc) ==
    WithinThreshold(calculateDistance(lat, lon, loc.latitude, loc.longitude),
                    accuracyThreshold(loc))

----------------------------------------------------------------------------
(* Attendance ledger *)

EmptyAttendance == [present |-> <<>>, absent |-> <<>>]

\* attendanceDoc.data() || { present: [], absent: [] }
AttendanceData(a, unit, monthYear) ==
    IF <<unit, monthYear>> \in DOMAIN a THEN a[<<unit, monthYear>>] ELSE EmptyAttendance

\* the test with the `absent` half left out
AlreadyMarkedPresentOnly(data, day) == Includes(data.present, day)

\* present?.includes(day) || absent?.includes(day)
AlreadyMarked(data, day) == Includes(data.present, day) \/ Includes(data.absent, day)

\* FieldValue.arrayUnion(day)
arrayUnion(arr, day) == IF Includes(arr, day) THEN arr ELSE Append(arr, day)

\* the write without { merge: true } and without arrayUnion: the document becomes
\* { <field>: [day] }
SetOverwrite(a, unit, monthYear, field, day) ==
    LET new == IF field = "present"
               THEN [present |-> <<day>>, absent |-> <<>>]
               ELSE [present |-> <<>>, absent |-> <<day>>]
    IN [k \in DOMAIN a \cup {<<unit, monthYear>>} |->
          IF k = <<unit, monthYear>> THEN new ELSE a[k]]

\* attendanceRef.set({ <field>: arrayUnion(day) }, { merge: true })
SetMerge(a, unit, monthYear, field, day) ==
    LET old == AttendanceData(a, unit, monthYear)
        new == IF field = "present"
               THEN [old EXCEPT !.present = arrayUnion(old.present, day)]
               ELSE [old EXCEPT !.absent = arrayUnion(old.absent, day)]
    IN [k \in DOMAIN a \cup {<<unit, monthYear>>} |->
          IF k = <<unit, monthYear>> THEN new ELSE a[k]]

----------------------------------------------------------------------------
(* History *)

\* sentLife: keys whose dispatch timer has fired in this process lifetime;
\* okLife: keys of this lifetime whose sendLocationRequest returned true;
\* failedLife: keys of this lifetime whose sendLocationRequest returned false;
\* sentPrev: keys whose sendLocationRequest returned true in an earlier lifetime;
\* dup: the timers ("armed", "grace") that were pending for a key when
\* queueLocationRequest found the key already queued, in this lifetime.
NoHistory == [sentLife |-> {}, okLife |-> {}, sentPrev |-> {}, failedLife |-> {}, dup |-> {}]

----------------------------------------------------------------------------
(* queueLocationRequest (lines 202-260), called by a scan for one class.   *)
(* It reads the clock again; the timer it arms fires delayMinutes later.   *)

\* the test left out: every call arms a timer
AlreadyQueuedNever(q, key) == FALSE

\* locationRequestQueue.has(queueKey)
AlreadyQueued(q, key) == key \in DOMAIN q

\* the trigger put at the end of the class
middleMinutesAtEnd(startMinutes, endMinutes) == endMinutes

\* Math.floor((startMinutes + endMinutes) / 2)
middleMinutes(startMinutes, endMinutes) ==
    IF startMinutes = NaN \/ endMinutes = NaN THEN NaN
    ELSE (startMinutes + endMinutes) \div 2

\* setTimeout(callback, delayMs): a delay that is NaN is taken as 1 ms
TimerDelay(delayMinutes) == IF delayMinutes = NaN THEN 0 ELSE delayMinutes

\* every class whose midpoint has passed is given up
ClassAlreadyEndedAtMidpoint(delayMinutes, currentMinutes, endMinutes) ==
    delayMinutes # NaN /\ delayMinutes < 0

\* lines 209-216: delayMinutes < 0 and not currentMinutes <= endMinutes
ClassAlreadyEnded(delayMinutes, currentMinutes, endMinutes) ==
    delayMinutes # NaN /\ delayMinutes < 0 /\ ~(currentMinutes <= endMinutes)

queueLocationRequest(unit, startMinutes, endMinutes, currentDate) ==
    LET middle == middleMinutes(startMinutes, endMinutes)
        istNow == getISTDate(now)
        currentMinutes == MinutesOfDay(istNow)
        delay0 == IF middle = NaN THEN NaN ELSE middle - currentMinutes
        ended == ClassAlreadyEnded(delay0, currentMinutes, endMinutes)
        delayMinutes == IF delay0 # NaN /\ delay0 < 0 THEN 0 ELSE delay0
        queueKey == <<unit, currentDate>>
    IN IF ended
       THEN UNCHANGED <<queue, jobs, hist>>
       ELSE IF AlreadyQueued(queue, queueKey)
       THEN /\ UNCHANGED <<queue, jobs>>
            /\ hist' = [hist EXCEPT !.dup = @ \cup
                          {j.pc : j \in {k \in BagToSet(jobs) :
                                           k.key = queueKey /\ k.pc \in {"armed", "grace"}}}]
       ELSE /\ jobs' = Put(jobs, [key |-> queueKey, unit |-> unit, pc |-> "armed",
                                   fireAt |-> now + TimerDelay(delayMinutes), day |-> 0, monthYear |-> 0,
                                   firedAt |-> 0, lag |-> 0])
            /\ queue' = [k \in DOMAIN queue \cup {queueKey} |->
                            IF k = queueKey
                            THEN [middleTime |-> middle,
                                  scheduledFor |-> IF delayMinutes = NaN THEN NaN
                                                   ELSE istNow + delayMinutes]
                            ELSE queue[k]]
            /\ UNCHANGED hist

----------------------------------------------------------------------------
(* scanAndQueueClasses (lines 263-396).  A scan in progress awaits the     *)
(* attendance read of one class (ui, si, ci); `ist` is the clock it read   *)
(* when it started.                                                        *)

\* !classTime.start || !classTime.end
LacksStartOrEnd(classTime) == classTime.start = <<>> \/ classTime.end = <<>>

\* Lines 298-351: the classes the scan takes from a schedule for currentDay, and
\* whether taking them throws.  A key is looked up as it is written; an array is
\* walked, skipping elements without start or end; anything else is split at
\* '-', which throws for an object (no split method) and for a string without
\* '-' (endTime is undefined).
DayClasses(schedule, currentDay) ==
    IF currentDay \notin DOMAIN schedule THEN [threw |-> FALSE, classes |-> <<>>]
    ELSE LET daySchedule == schedule[currentDay]
         IN IF daySchedule.shape = "list"
            THEN [threw |-> FALSE,
                  classes |-> SelectSeq(daySchedule.items, LAMBDA c : ~LacksStartOrEnd(c))]
            ELSE IF daySchedule.shape = "string" /\ daySchedule.items[1].end # <<>>
            THEN [threw |-> FALSE, classes |-> daySchedule.items]
            ELSE [threw |-> TRUE, classes |-> <<>>]

ClassList(unit, dayName) == DayClasses(Schedule(unit), dayName).classes

\* endMinutes < currentMinutes (false when endMinutes is NaN)
ClassFinished(classTime, currentMinutes) ==
    LET endMinutes == timeToMinutes(classTime.end)
    IN endMinutes # NaN /\ endMinutes < currentMinutes

\* the loops of lines 277-314 from class ci of subject si of user ui on: the next
\* class whose attendance document the scan reads ("att"), the end of the loops
\* ("done"), or an exception on the way ("threw"), which the catch of line 393
\* takes.
RECURSIVE NextClass(_, _, _, _)
NextClass(ist, ui, si, ci) ==
    IF ui > Len(UserList) THEN [pc |-> "done", ui |-> 0, si |-> 0, ci |-> 0]
    ELSE LET user == UserList[ui]
         IN IF ~HasFcmToken(user) \/ si > Len(SubjectList(user))
            THEN NextClass(ist, ui + 1, 1, 1)
            ELSE LET today == DayClasses(Schedule(<<user, SubjectList(user)[si]>>),
                                         getCurrentDay(ist))
                 IN IF today.threw THEN [pc |-> "threw", ui |-> 0, si |-> 0, ci |-> 0]
                    ELSE IF ci > Len(today.classes) THEN NextClass(ist, ui, si + 1, 1)
                    ELSE IF ClassFinished(today.classes[ci], MinutesOfDay(ist))
                    THEN NextClass(ist, ui, si, ci + 1)
                    ELSE [pc |-> "att", ui |-> ui, si |-> si, ci |-> ci]

ScanAt(ist, pos) == [ist |-> ist, ui |-> pos.ui, si |-> pos.si, ci |-> pos.ci, lag |-> 0]

\* scanAndQueueClasses() is called at instant t and runs up to its first attendance read
StartScan(b, t) ==
    LET pos == NextClass(getISTDate(t), 1, 1, 1)
    IN IF pos.pc = "att" THEN Put(b, ScanAt(getISTDate(t), pos)) ELSE b

\* await attendanceRef.get(), the already-marked test and queueLocationRequest
ScanReadAttendance(sc) ==
    /\ LET user == UserList[sc.ui]
           unit == <<user, SubjectList(user)[sc.si]>>
           classTime == ClassList(unit, getCurrentDay(sc.ist))[sc.ci]
           attendanceData == AttendanceData(att, unit, MonthYear(sc.ist))
           pos == NextClass(sc.ist, sc.ui, sc.si, sc.ci + 1)
       IN /\ IF AlreadyMarked(attendanceData, getDate(sc.ist))
             THEN UNCHANGED <<queue, jobs, hist>>
             ELSE queueLocationRequest(unit, timeToMinutes(classTime.start),
                                       timeToMinutes(classTime.end), IsoDate(sc.ist))
          /\ scans' = IF pos.pc = "att" THEN Put(Take(scans, sc), ScanAt(sc.ist, pos))
                      ELSE Take(scans, sc)
    /\ UNCHANGED <<now, subjects, scheduleCollection, processedClasses, sentNotifications, classLoc, att, locations, evals, posts, restarts>>

\* a failed read that would leave the key of its class in locationRequestQueue
ScanErrorKeepsKey(sc) ==
    /\ scans' = Take(scans, sc)
    /\ LET user == UserList[sc.ui]
           queueKey == <<<<user, SubjectList(user)[sc.si]>>, IsoDate(sc.ist)>>
       IN queue' = [k \in DOMAIN queue \cup {queueKey} |->
                       IF k \in DOMAIN queue THEN queue[k]
                       ELSE [middleTime |-> NaN, scheduledFor |-> NaN]]
    /\ UNCHANGED <<now, subjects, scheduleCollection, processedClasses, sentNotifications, classLoc, att, locations, jobs, evals, posts, restarts, hist>>

\* a read of the scan throws: the catch of line 393 ends the scan
ScanError(sc) ==
    /\ scans' = Take(scans, sc)
    /\ UNCHANGED <<now, subjects, scheduleCollection, processedClasses, sentNotifications, classLoc, att, locations, queue, jobs, evals, posts, restarts, hist>>

\* POST /api/trigger-scan
TriggerScan ==
    /\ BagCardinality(scans) < MaxScans
    /\ scans' = StartScan(scans, now)
    /\ UNCHANGED <<now, subjects, scheduleCollection, processedClasses, sentNotifications, classLoc, att, locations, queue, jobs, evals, posts, restarts, hist>>

----------------------------------------------------------------------------
(* Time *)

Aged(b) ==
    LET S == BagToSet(b)
        T == {[r EXCEPT !.lag = @ + 1] : r \in S}
    IN [t \in T |-> b[[t EXCEPT !.lag = @ - 1]]]

Waiting(r) == r.pc \notin {"armed", "grace", "evaluating"}

AgedJobs(b) ==
    LET S == BagToSet(b)
        T == {IF Waiting(r) THEN [r EXCEPT !.lag = @ + 1] ELSE r : r \in S}
    IN [t \in T |-> b[IF Waiting(t) THEN [t EXCEPT !.lag = @ - 1] ELSE t]]

\* cron.schedule('* * * * *', ...): the minute turns and the scheduled scan starts.
\* A timer that is due fires within its minute.
MinuteTurns ==
    /\ \A j \in BagToSet(jobs) :
          IF Waiting(j) THEN j.lag < MaxLag ELSE j.pc = "evaluating" \/ j.fireAt > now
    /\ \A r \in BagToSet(scans) : r.lag < MaxScanLag
    /\ \A r \in BagToSet(evals) \cup BagToSet(posts) : r.lag < MaxLag
    /\ BagCardinality(scans) < MaxScans
    /\ now' = now + 1
    /\ scans' = StartScan(Aged(scans), now + 1)
    /\ evals' = Aged(evals)
    /\ posts' = Aged(posts)
    /\ jobs' = AgedJobs(jobs)
    /\ UNCHANGED <<subjects, scheduleCollection, processedClasses, sentNotifications, classLoc, att, locations, queue, restarts, hist>>

Tick == now < StartClock + MaxClock /\ MinuteTurns

----------------------------------------------------------------------------
(* The two timers of queueLocationRequest (lines 232-251) *)

DeleteKey(q, key) == [k \in DOMAIN q \ {key} |-> q[k]]

\* a dispatch timer that is dropped when it is due, its callback never run
DispatchTimerLost(j) ==
    /\ j.pc = "armed"
    /\ j.fireAt <= now
    /\ jobs' = Take(jobs, j)
    /\ UNCHANGED <<now, subjects, scheduleCollection, processedClasses, sentNotifications, classLoc, att, locations, queue, scans, evals, posts, restarts, hist>>

\* the dispatch timer fires: the callback reads the clock and calls sendLocationRequest
\* (history field `firedAt`: the instant of that clock read)
DispatchTimerFires(j) ==
    /\ j.pc = "armed"
    /\ j.fireAt <= now
    /\ LET istDate == getISTDate(now)
       IN jobs' = Put(Take(jobs, j), [j EXCEPT !.pc = "sending",
                                              !.day = getDate(istDate),
                                              !.monthYear = MonthYear(istDate),
                                              !.firedAt = now])
    /\ hist' = [hist EXCEPT !.sentLife = @ \cup {j.key}]
    /\ UNCHANGED <<now, subjects, scheduleCollection, processedClasses, sentNotifications, classLoc, att, locations, queue, scans, evals, posts, restarts>>

\* the callback without the test of `sent`: the grace timer is armed either way
SendReturnsUntested(j, sent) ==
    /\ j.pc = "sending"
    /\ jobs' = Put(Take(jobs, j), [j EXCEPT !.pc = "grace", !.lag = 0,
                                           !.fireAt = now + GraceMin])
    /\ hist' = IF sent THEN [hist EXCEPT !.okLife = @ \cup {j.key}]
               ELSE [hist EXCEPT !.failedLife = @ \cup {j.key}]
    /\ UNCHANGED <<now, subjects, scheduleCollection, processedClasses, sentNotifications, classLoc, att, locations, queue, scans, evals, posts, restarts>>

\* await sendLocationRequest(...) returns `sent`
SendReturns(j, sent) ==
    /\ j.pc = "sending"
    /\ IF sent
       THEN /\ jobs' = Put(Take(jobs, j), [j EXCEPT !.pc = "grace", !.lag = 0,
                                                   !.fireAt = now + GraceMin])
            /\ hist' = [hist EXCEPT !.okLife = @ \cup {j.key}]
            /\ UNCHANGED queue
       ELSE /\ jobs' = Take(jobs, j)
            /\ queue' = DeleteKey(queue, j.key)
            /\ hist' = [hist EXCEPT !.failedLife = @ \cup {j.key}]
    /\ UNCHANGED <<now, subjects, scheduleCollection, processedClasses, sentNotifications, classLoc, att, locations, scans, evals, posts, restarts>>

\* the day is in `present` or in `absent` of the unit's record of the month
Decided(a, unit, monthYear, day) ==
    \/ Includes(AttendanceData(a, unit, monthYear).present, day)
    \/ Includes(AttendanceData(a, unit, monthYear).absent, day)

\* A call of checkAndMarkAttendance.  History fields: `after`, the day was decided
\* when the call was made; `noShow`, the call is a grace callback and no sample of
\* the unit was stored when its timer fired.
NewEval(unit, monthYear, day, origin, key) ==
    [unit |-> unit, monthYear |-> monthYear, day |-> day, pc |-> "readAtt",
     origin |-> origin, key |-> key, tenMinutesAgo |-> 0, decision |-> "none", lag |-> 0,
     after |-> Decided(att, unit, monthYear, day),
     noShow |-> origin = "job" /\ locations[unit] = <<>>]

\* the grace callback run without waiting for its timer
GraceTimerFiresAtOnce(j) ==
    /\ j.pc = "grace"
    /\ jobs' = Put(Take(jobs, j), [j EXCEPT !.pc = "evaluating"])
    /\ evals' = Put(evals, NewEval(j.unit, j.monthYear, j.day, "job", j.key))
    /\ UNCHANGED <<now, subjects, scheduleCollection, processedClasses, sentNotifications, classLoc, att, locations, queue, scans, posts, restarts, hist>>

\* the grace timer fires: the callback calls checkAndMarkAttendance
GraceTimerFires(j) ==
    /\ j.pc = "grace"
    /\ j.fireAt <= now
    /\ jobs' = Put(Take(jobs, j), [j EXCEPT !.pc = "evaluating"])
    /\ evals' = Put(evals, NewEval(j.unit, j.monthYear, j.day, "job", j.key))
    /\ UNCHANGED <<now, subjects, scheduleCollection, processedClasses, sentNotifications, classLoc, att, locations, queue, scans, posts, restarts, hist>>

----------------------------------------------------------------------------
(* checkAndMarkAttendance (lines 104-199) *)

OfOrigin(b, origin) == [e \in {x \in BagToSet(b) : x.origin = origin} |-> b[e]]

\* POST /api/test-attendance (lines 586-628)
TestAttendance(unit) ==
    /\ BagCardinality(OfOrigin(evals, "test")) < MaxTests
    /\ LET istDate == getISTDate(now)
       IN evals' = Put(evals, NewEval(unit, MonthYear(istDate), getDate(istDate),
                                      "test", <<>>))
    /\ UNCHANGED <<now, subjects, scheduleCollection, processedClasses, sentNotifications, classLoc, att, locations, queue, jobs, scans, posts, restarts, hist>>

\* checkAndMarkAttendance returns: a test request answers, a grace callback goes on
\* to locationRequestQueue.delete(queueKey)
Return(e) ==
    /\ evals' = Take(evals, e)
    /\ IF e.origin = "job"
       THEN LET j == CHOOSE k \in BagToSet(jobs) : k.key = e.key /\ k.pc = "evaluating"
            IN /\ jobs' = Take(jobs, j)
               /\ queue' = DeleteKey(queue, e.key)
       ELSE UNCHANGED <<queue, jobs>>

\* new Date(istNow.getTime() - 10 * 60 * 1000)
TenMinutesAgo(t) == getISTDate(t) - WindowMin

\* locationTimestamp && locationTimestamp < tenMinutesAgo
LocationTooOld(timestamp, tenMinutesAgo) == timestamp < tenMinutesAgo

\* lines 137-194: what the evaluator does with the snapshot of the locations query
Decision(snapshot, tenMinutesAgo, loc) ==
    IF snapshot = <<>> THEN "absent"
    ELSE IF LocationTooOld(snapshot[1].timestamp, tenMinutesAgo) THEN "absent"
    ELSE IF ClassLocationMissing(loc) THEN "none"
    ELSE IF WithinRange(snapshot[1].latitude, snapshot[1].longitude, loc) THEN "present"
    ELSE "absent"

\* await attendanceRef.get() and the already-marked test
EvalReadAttendance(e) ==
    /\ e.pc = "readAtt"
    /\ IF AlreadyMarked(AttendanceData(att, e.unit, e.monthYear), e.day)
       THEN Return(e)
       ELSE /\ evals' = Put(Take(evals, e),
                            [e EXCEPT !.pc = "readLoc", !.lag = 0,
                                      !.tenMinutesAgo = TenMinutesAgo(now)])
            /\ UNCHANGED <<queue, jobs>>
    /\ UNCHANGED <<now, subjects, scheduleCollection, processedClasses, sentNotifications, classLoc, att, locations, scans, posts, restarts, hist>>

\* await the locations query (freshest document of the unit)
EvalReadLocations(e) ==
    /\ e.pc = "readLoc"
    /\ LET d == Decision(locations[e.unit], e.tenMinutesAgo, classLoc[e.unit])
       IN IF d = "none"
          THEN Return(e)
          ELSE /\ evals' = Put(Take(evals, e),
                               [e EXCEPT !.pc = "write", !.lag = 0, !.decision = d,
                                         !.tenMinutesAgo = 0])
               /\ UNCHANGED <<queue, jobs>>
    /\ UNCHANGED <<now, subjects, scheduleCollection, processedClasses, sentNotifications, classLoc, att, locations, scans, posts, restarts, hist>>

\* await attendanceRef.set(...)
EvalWrite(e) ==
    /\ e.pc = "write"
    /\ att' = SetMerge(att, e.unit, e.monthYear, e.decision, e.day)
    /\ Return(e)
    /\ UNCHANGED <<now, subjects, scheduleCollection, processedClasses, sentNotifications, classLoc, locations, scans, posts, restarts, hist>>

\* the exception leaves checkAndMarkAttendance: the grace callback ends before
\* locationRequestQueue.delete
EvalErrorUncaught(e) ==
    /\ evals' = Take(evals, e)
    /\ jobs' = IF e.origin = "job"
                THEN Take(jobs, CHOOSE k \in BagToSet(jobs) :
                                    k.key = e.key /\ k.pc = "evaluating")
                ELSE jobs
    /\ UNCHANGED <<now, subjects, scheduleCollection, processedClasses, sentNotifications, classLoc, att, locations, queue, scans, posts, restarts,
                   hist>>

\* an await of the evaluator throws: the catch of line 195 swallows it
EvalError(e) ==
    /\ Return(e)
    /\ UNCHANGED <<now, subjects, scheduleCollection, processedClasses, sentNotifications, classLoc, att, locations, scans, posts, restarts, hist>>

----------------------------------------------------------------------------
(* POST /api/location (lines 399-546) *)

\* !userId || !latitude || !longitude || !subjectId
MissingFields(body) == body.latitude = 0 \/ body.longitude = 0

\* a job of the unit has been dispatched and has not yet been evaluated
OpenJob(unit) ==
    \E j \in BagToSet(jobs) : j.unit = unit /\ j.pc \in {"sending", "grace", "evaluating"}

\* The request arrives, db.collection('locations').add(...) commits, stamped with
\* the server time, and the handler goes on to the clock read of line 461.
\* History fields: `after`, the day was decided at that clock read; `open`, a job of
\* the unit was open when the request arrived.
PostLocation(unit, body) ==
    /\ BagCardinality(posts) < MaxPosts
    /\ ~MissingFields(body)
    /\ locations' = [locations EXCEPT ![unit] =
                       <<[latitude |-> body.latitude, longitude |-> body.longitude,
                          timestamp |-> now]>>]
    /\ LET loc == classLoc[unit]
           istDate == getISTDate(now)
       IN posts' = IF ClassLocationMissing(loc) THEN posts
                   ELSE Put(posts,
                            [unit |-> unit, pc |-> "readAtt", lag |-> 0,
                             latitude |-> body.latitude, longitude |-> body.longitude,
                             day |-> getDate(istDate), monthYear |-> MonthYear(istDate),
                             within |-> WithinRange(body.latitude, body.longitude, loc),
                             after |-> Decided(att, unit, MonthYear(istDate),
                                               getDate(istDate)),
                             open |-> OpenJob(unit)])
    /\ UNCHANGED <<now, subjects, scheduleCollection, processedClasses, sentNotifications, classLoc, att, queue, jobs, scans, evals, restarts, hist>>

\* await attendanceRef.get() and the already-marked test
PostReadAttendance(p) ==
    /\ p.pc = "readAtt"
    /\ posts' = IF AlreadyMarked(AttendanceData(att, p.unit, p.monthYear), p.day)
                THEN Take(posts, p)
                ELSE Put(Take(posts, p), [p EXCEPT !.pc = "write", !.lag = 0])
    /\ UNCHANGED <<now, subjects, scheduleCollection, processedClasses, sentNotifications, classLoc, att, locations, queue, jobs, scans, evals, restarts, hist>>

\* await attendanceRef.set(...)
PostWrite(p) ==
    /\ p.pc = "write"
    /\ att' = SetMerge(att, p.unit, p.monthYear,
                       IF p.within THEN "present" ELSE "absent", p.day)
    /\ posts' = Take(posts, p)
    /\ UNCHANGED <<now, subjects, scheduleCollection, processedClasses, sentNotifications, classLoc, locations, queue, jobs, scans, evals, restarts, hist>>

\* an await of the handler throws: the catch of line 540 answers 500
PostError(p) ==
    /\ posts' = Take(posts, p)
    /\ UNCHANGED <<now, subjects, scheduleCollection, processedClasses, sentNotifications, classLoc, att, locations, queue, jobs, scans, evals, restarts, hist>>

----------------------------------------------------------------------------
(* The process stops and starts again: what lives in memory is lost, the   *)
(* database stays, and the scan of process start runs.                     *)

Restart ==
    /\ restarts < MaxRestarts
    /\ restarts' = restarts + 1
    /\ queue' = <<>>
    /\ jobs' = EmptyBag
    /\ evals' = EmptyBag
    /\ posts' = EmptyBag
    /\ scans' = StartScan(EmptyBag, now)
    /\ hist' = [NoHistory EXCEPT !.sentPrev = hist.sentPrev \cup hist.okLife]
    /\ UNCHANGED <<now, subjects, scheduleCollection, processedClasses, sentNotifications, classLoc, att, locations>>

----------------------------------------------------------------------------
(* State after construction: the module has been loaded and the scan of    *)
(* process start (line 670) has read the clock and awaits its first read.  *)

Init ==
    /\ now = StartClock
    /\ subjects = [u \in {<<"u1", "s1">>} |-> StandardDoc]
    /\ scheduleCollection = <<>>
    /\ processedClasses = {}
    /\ sentNotifications = {}
    /\ classLoc \in [Units -> ClassLocChoices]
    /\ att = <<>>
    /\ locations = [u \in Units |-> <<>>]
    /\ queue = <<>>
    /\ jobs = EmptyBag
    /\ scans = StartScan(EmptyBag, StartClock)
    /\ evals = EmptyBag
    /\ posts = EmptyBag
    /\ restarts = 0
    /\ hist = NoHistory

Next ==
    \/ Tick
    \/ TriggerScan
    \/ \E sc \in BagToSet(scans) : ScanReadAttendance(sc) \/ ScanError(sc)
    \/ \E j \in BagToSet(jobs) :
          DispatchTimerFires(j) \/ GraceTimerFires(j) \/ \E sent \in BOOLEAN : SendReturns(j, sent)
    \/ \E u \in Units : TestAttendance(u)
    \/ \E e \in BagToSet(evals) :
          EvalReadAttendance(e) \/ EvalReadLocations(e) \/ EvalWrite(e) \/ EvalError(e)
    \/ \E u \in Units, body \in SampleInputs : PostLocation(u, body)
    \/ \E p \in BagToSet(posts) : PostReadAttendance(p) \/ PostWrite(p) \/ PostError(p)
    \/ Restart

Spec == Init /\ [][Next]_vars

----------------------------------------------------------------------------
(* The scan over varied subject documents.  The clock stands at one of a   *)
(* few instants; user u1 has two subjects whose documents differ from the  *)
(* standard one in the day key, the shape of the day entry, the time       *)
(* strings or the flag.  Scans run (process start, /api/trigger-scan) and  *)
(* the timers they arm fire.                                               *)

StandardClass == ClassTime(<<10, 0>>, <<10, 10>>)

ScanDocs ==
    {StandardDoc,
     SubjectDoc("monday", DayEntry("list", <<StandardClass>>), "unset"),
     SubjectDoc("MONDAY", DayEntry("list", <<StandardClass>>), "unset"),
     SubjectDoc("Tuesday", DayEntry("list", <<StandardClass>>), "unset"),
     SubjectDoc("Monday", DayEntry("object", <<StandardClass>>), "unset"),
     SubjectDoc("Monday", DayEntry("string", <<StandardClass>>), "unset"),
     SubjectDoc("Monday", DayEntry("string", <<ClassTime(<<10, 0>>, <<>>)>>), "unset"),
     SubjectDoc("Monday", DayEntry("list", <<ClassTime(<<NaN>>, <<10, 10>>)>>), "unset"),
     SubjectDoc("Monday", DayEntry("list", <<ClassTime(<<10, 0>>, <<10, NaN>>)>>), "unset"),
     SubjectDoc("Monday", DayEntry("list", <<ClassTime(<<>>, <<10, 10>>), StandardClass>>),
                "unset"),
     SubjectDoc("Monday", DayEntry("list", <<ClassTime(<<9, 0>>, <<10, 0>>)>>), "unset"),
     SubjectDoc("Monday", DayEntry("list", <<StandardClass>>), "on"),
     SubjectDoc("Monday", DayEntry("list", <<StandardClass>>), "off")}

ScanClocks == {ClockAt(9, 10), ClockAt(10, 4), ClockAt(10, 6), ClockAt(10, 10), ClockAt(10, 11)}

ScanInit ==
    /\ now \in ScanClocks
    /\ subjects \in [{<<"u1", "s1">>, <<"u1", "s2">>} -> ScanDocs]
    /\ scheduleCollection = <<>>
    /\ processedClasses = {}
    /\ sentNotifications = {}
    /\ classLoc = [u \in Units |-> NoLocation]
    /\ att = <<>>
    /\ locations = [u \in Units |-> <<>>]
    /\ queue = <<>>
    /\ jobs = EmptyBag
    /\ scans = StartScan(EmptyBag, now)
    /\ evals = EmptyBag
    /\ posts = EmptyBag
    /\ restarts = 0
    /\ hist = NoHistory

ScanNext ==
    \/ TriggerScan
    \/ \E sc \in BagToSet(scans) : ScanReadAttendance(sc) \/ ScanError(sc)
    \/ \E j \in BagToSet(jobs) :
          DispatchTimerFires(j) \/ \E sent \in BOOLEAN : SendReturns(j, sent)

ScanSpec == ScanInit /\ [][ScanNext]_vars

----------------------------------------------------------------------------
(* The scan over two users.  User u0, whom the users query returns first,  *)
(* has no push address; both users have a subject.                         *)

UsersInit ==
    /\ now \in ScanClocks
    /\ subjects \in [{<<"u0", "s1">>, <<"u1", "s1">>} -> 
          {StandardDoc,
           SubjectDoc("Tuesday", DayEntry("list", <<StandardClass>>), "unset"),
           SubjectDoc("Monday", DayEntry("list", <<ClassTime(<<9, 0>>, <<10, 0>>)>>), "unset")}]
    /\ scheduleCollection = <<>>
    /\ processedClasses = {}
    /\ sentNotifications = {}
    /\ classLoc = [u \in Units |-> NoLocation]
    /\ att = <<>>
    /\ locations = [u \in Units |-> <<>>]
    /\ queue = <<>>
    /\ jobs = EmptyBag
    /\ scans = StartScan(EmptyBag, now)
    /\ evals = EmptyBag
    /\ posts = EmptyBag
    /\ restarts = 0
    /\ hist = NoHistory

UsersSpec == UsersInit /\ [][ScanNext]_vars

----------------------------------------------------------------------------
(* The two places that decide by distance, over varied class locations and *)
(* samples: POST /api/location and checkAndMarkAttendance (called through  *)
(* /api/test-attendance).  The `locations` collection holds what any       *)
(* client of the database has written: no document of the unit, or one     *)
(* whose timestamp is the present instant or one the evaluator's window    *)
(* admits.                                                                 *)

ClassAtOrigin == [has |-> TRUE, latitude |-> 0, longitude |-> 0, accuracy |-> 50]

\* radius 278 m = 25 coordinate units
GeoClassLocs ==
    {NoLocation,
     [has |-> TRUE, latitude |-> 10, longitude |-> 10, accuracy |-> 0],
     [has |-> TRUE, latitude |-> 10, longitude |-> 10, accuracy |-> 278],
     ClassAtOrigin}

SampleAtOrigin == [latitude |-> 0, longitude |-> 0]

SampleNearOrigin == [latitude |-> 5, longitude |-> 0]

GeoSamples ==
    {[latitude |-> 10, longitude |-> 10], [latitude |-> 15, longitude |-> 10],
     [latitude |-> 35, longitude |-> 10], [latitude |-> 36, longitude |-> 10],
     SampleAtOrigin, SampleNearOrigin}

GeoStamps == {StartClock, StartClock + IstOffsetMin}

GeoInit ==
    /\ now = StartClock
    /\ subjects = [u \in {<<"u1", "s1">>} |-> StandardDoc]
    /\ scheduleCollection = <<>>
    /\ processedClasses = {}
    /\ sentNotifications = {}
    /\ classLoc \in [Units -> GeoClassLocs]
    /\ att = <<>>
    /\ locations \in [Units -> {<<>>} \cup
                                {<<[latitude |-> b.latitude, longitude |-> b.longitude,
                                    timestamp |-> t]>> : b \in GeoSamples, t \in GeoStamps}]
    /\ queue = <<>>
    /\ jobs = EmptyBag
    /\ scans = EmptyBag
    /\ evals = EmptyBag
    /\ posts = EmptyBag
    /\ restarts = 0
    /\ hist = NoHistory

GeoNext ==
    \/ \E u \in Units, body \in GeoSamples : PostLocation(u, body)
    \/ \E p \in BagToSet(posts) : PostReadAttendance(p) \/ PostWrite(p) \/ PostError(p)
    \/ \E u \in Units : TestAttendance(u)
    \/ \E e \in BagToSet(evals) :
          EvalReadAttendance(e) \/ EvalReadLocations(e) \/ EvalWrite(e) \/ EvalError(e)

GeoSpec == GeoInit /\ [][GeoNext]_vars

----------------------------------------------------------------------------
(* The life of a queue entry while the process keeps running: the clock    *)
(* goes on as long as an entry is queued, a timer that is due fires, and   *)
(* every Firestore or FCM round trip returns or rejects.  Every subject    *)
(* has its class location set, so that samples decide attendance, and a    *)
(* sample is posted in answer to a location request.                       *)

\* No entry is queued after the class has ended, so none is left a grace window
\* after the last minute in which scans run.
LiveTick ==
    /\ \/ now < StartClock + MaxClock
       \/ queue # <<>> /\ now < StartClock + MaxClock + GraceMin
    /\ MinuteTurns

ScanSteps == \E sc \in BagToSet(scans) : ScanReadAttendance(sc) \/ ScanError(sc)

TimerSteps == \E j \in BagToSet(jobs) : DispatchTimerFires(j) \/ GraceTimerFires(j)

SendSteps == \E j \in BagToSet(jobs) : \E sent \in BOOLEAN : SendReturns(j, sent)

EvalSteps ==
    \E e \in BagToSet(evals) :
        EvalReadAttendance(e) \/ EvalReadLocations(e) \/ EvalWrite(e) \/ EvalError(e)

PostSteps ==
    \E p \in BagToSet(posts) : PostReadAttendance(p) \/ PostWrite(p) \/ PostError(p)

\* a round trip of a handler of /api/location that has lasted as long as a round
\* trip may returns or rejects
DuePostSteps ==
    \E p \in BagToSet(posts) :
        p.lag >= MaxLag /\ (PostReadAttendance(p) \/ PostWrite(p) \/ PostError(p))

LiveInit == Init /\ \A u \in Units : classLoc[u].has

LiveNext ==
    \/ LiveTick \/ ScanSteps \/ TimerSteps \/ SendSteps \/ EvalSteps \/ PostSteps
    \/ \E u \in Units, body \in SampleInputs : OpenJob(u) /\ PostLocation(u, body)

LiveSpec ==
    /\ LiveInit
    /\ [][LiveNext]_vars
    /\ SF_vars(LiveTick)    \* requests do not keep the clock from going on
    /\ WF_vars(ScanSteps)
    /\ WF_vars(TimerSteps)
    /\ WF_vars(SendSteps)
    /\ WF_vars(EvalSteps)
    /\ WF_vars(DuePostSteps)

----------------------------------------------------------------------------
(* The engine late in the day: on the last day of a month in the evening   *)
(* (from 18:30 on the clock of Asia/Kolkata the instant getISTDate returns *)
(* lies in the next day of that zone) and in the minutes around midnight,  *)
(* on the last day of the month and on its first.  Day 31 of month 0 is a  *)
(* Wednesday.  The process keeps running.                                  *)

NightCases ==
    {[clock |-> ClockOn(31, 18, 28),
      doc |-> SubjectDoc("Wednesday", DayEntry("list", <<ClassTime(<<18, 0>>, <<18, 10>>), ClassTime(<<18, 20>>, <<18, 40>>)>>), "unset")],
     [clock |-> ClockOn(31, 23, 56),
      doc |-> SubjectDoc("Wednesday", DayEntry("list", <<ClassTime(<<23, 50>>, <<23, 59>>)>>), "unset")],
     [clock |-> ClockOn(1, 23, 56),
      doc |-> SubjectDoc("Monday", DayEntry("list", <<ClassTime(<<23, 50>>, <<23, 59>>)>>), "unset")]}

NightInit ==
    /\ \E c \in NightCases :
          /\ now = c.clock
          /\ subjects = [u \in {<<"u1", "s1">>} |-> c.doc]
    /\ scheduleCollection = <<>>
    /\ processedClasses = {}
    /\ sentNotifications = {}
    /\ classLoc = [u \in Units |-> [has |-> TRUE, latitude |-> 10, longitude |-> 10,
                                     accuracy |-> 0]]
    /\ att = <<>>
    /\ locations = [u \in Units |-> <<>>]
    /\ queue = <<>>
    /\ jobs = EmptyBag
    /\ scans = StartScan(EmptyBag, now)
    /\ evals = EmptyBag
    /\ posts = EmptyBag
    /\ restarts = 0
    /\ hist = NoHistory

NightTick ==
    /\ \E c \in NightCases : c.clock <= now /\ now < c.clock + MaxNight
    /\ MinuteTurns

NightNext ==
    \/ NightTick \/ ScanSteps \/ TimerSteps \/ SendSteps \/ EvalSteps \/ PostSteps
    \/ \E u \in Units, body \in SampleInputs : PostLocation(u, body)

NightSpec == NightInit /\ [][NightNext]_vars

----------------------------------------------------------------------------
(* The persisted-schedule variant of the scan (src/unnamed/part_001, lines *)
(* 112-168 and 277-284; part_003 has the same query and add at lines       *)
(* 178-192).  scanAndQueueClasses writes one document per class of the day *)
(* to the `schedule` collection; `scans` holds its executions in progress, *)
(* each awaiting the existence query ("query") or the add ("add") of       *)
(* subject si of user ui.  The snapshot listener of the collection only    *)
(* reads the documents.                                                    *)

\* istDate.toDateString(), as a day number
toDateString(d) == d \div MinutesPerDay

\* Lines 129-143: the end time taken from a schedule for currentDay; <<>> when the
\* subject is passed over.  The key is matched in lower case; an array gives its
\* first element's end, an object its end, a string has no end.
PersistedEndTime(sched, currentDay) ==
    LET keys == {k \in DOMAIN sched : toLowerCase(k) = currentDay}
    IN IF keys = {} THEN <<>>
       ELSE LET scheduleEntry == sched[CHOOSE k \in keys : TRUE]
            IN IF scheduleEntry.shape = "list"
               THEN IF scheduleEntry.items # <<>> THEN scheduleEntry.items[1].end ELSE <<>>
               ELSE IF scheduleEntry.shape = "object" THEN scheduleEntry.items[1].end
               ELSE <<>>

\* the loops of lines 120-143 from subject si of user ui on: the next subject
\* whose existence query the scan awaits, or the end of the loops
RECURSIVE PersistedNextSubject(_, _, _)
PersistedNextSubject(ist, ui, si) ==
    IF ui > Len(UserList) THEN [pc |-> "done", ui |-> 0, si |-> 0]
    ELSE LET user == UserList[ui]
         IN IF si > Len(SubjectList(user)) THEN PersistedNextSubject(ist, ui + 1, 1)
            ELSE IF PersistedEndTime(Schedule(<<user, SubjectList(user)[si]>>),
                                     toLowerCase(getCurrentDay(ist))) = <<>>
            THEN PersistedNextSubject(ist, ui, si + 1)
            ELSE [pc |-> "query", ui |-> ui, si |-> si]

PersistedScanAt(ist, pos) ==
    [ist |-> ist, ui |-> pos.ui, si |-> pos.si, pc |-> "query", lag |-> 0]

\* scanAndQueueClasses() is called at instant t and runs up to its first query
PersistedStartScan(b, t) ==
    LET pos == PersistedNextSubject(getISTDate(t), 1, 1)
    IN IF pos.pc = "query" THEN Put(b, PersistedScanAt(getISTDate(t), pos)) ELSE b

\* the scan goes on to the next subject
PersistedAdvance(sc) ==
    LET pos == PersistedNextSubject(sc.ist, sc.ui, sc.si + 1)
    IN IF pos.pc = "query" THEN Put(Take(scans, sc), PersistedScanAt(sc.ist, pos))
       ELSE Take(scans, sc)

\* await db.collection('schedule').where(...).get() and the test of .empty
PersistedQuery(sc) ==
    /\ sc.pc = "query"
    /\ LET userId == UserList[sc.ui]
           subjectId == SubjectList(userId)[sc.si]
           existingSchedule ==
               SelectSeq(scheduleCollection,
                         LAMBDA d : /\ d.userId = userId /\ d.subjectId = subjectId
                                    /\ d.date = toDateString(sc.ist))
       IN scans' = IF existingSchedule # <<>> THEN PersistedAdvance(sc)
                   ELSE Put(Take(scans, sc), [sc EXCEPT !.pc = "add", !.lag = 0])
    /\ UNCHANGED <<now, subjects, scheduleCollection, processedClasses, sentNotifications, classLoc, att, locations, queue, jobs, evals, posts, restarts, hist>>

\* await db.collection('schedule').add({...})
PersistedAdd(sc) ==
    /\ sc.pc = "add"
    /\ LET userId == UserList[sc.ui]
           subjectId == SubjectList(userId)[sc.si]
           endTime == PersistedEndTime(Schedule(<<userId, subjectId>>),
                                       toLowerCase(getCurrentDay(sc.ist)))
       IN scheduleCollection' =
             Append(scheduleCollection,
                    [userId |-> userId, subjectId |-> subjectId,
                     endTime |-> toDateString(sc.ist) * MinutesPerDay + timeToMinutes(endTime),
                     date |-> toDateString(sc.ist)])
    /\ scans' = PersistedAdvance(sc)
    /\ UNCHANGED <<now, subjects, processedClasses, sentNotifications, classLoc, att, locations, queue, jobs, evals, posts, restarts, hist>>

\* an await of the scan rejects: nothing catches it and the scan ends
PersistedScanError(sc) ==
    /\ scans' = Take(scans, sc)
    /\ UNCHANGED <<now, subjects, scheduleCollection, processedClasses, sentNotifications, classLoc, att, locations, queue, jobs, evals, posts, restarts, hist>>

\* setInterval(scanAndQueueClasses, 60 * 1000): the minute turns and a scan starts
PersistedTick ==
    /\ now < StartClock + MaxPersistClock
    /\ \A r \in BagToSet(scans) : r.lag < MaxScanLag
    /\ BagCardinality(scans) < MaxScans
    /\ now' = now + 1
    /\ scans' = PersistedStartScan(Aged(scans), now + 1)
    /\ UNCHANGED <<subjects, scheduleCollection, processedClasses, sentNotifications, classLoc, att, locations, queue, jobs, evals, posts, restarts, hist>>

PersistedDocs ==
    {StandardDoc,
     SubjectDoc("monday", DayEntry("list", <<StandardClass>>), "unset"),
     SubjectDoc("Monday", DayEntry("object", <<StandardClass>>), "unset"),
     SubjectDoc("Monday", DayEntry("string", <<StandardClass>>), "unset"),
     SubjectDoc("Tuesday", DayEntry("list", <<StandardClass>>), "unset")}

\* app.listen's callback has called the initial scan
PersistedInit ==
    /\ now = StartClock
    /\ subjects \in [{<<"u1", "s1">>, <<"u1", "s2">>} -> PersistedDocs]
    /\ scheduleCollection = <<>>
    /\ processedClasses = {}
    /\ sentNotifications = {}
    /\ classLoc = [u \in Units |-> NoLocation]
    /\ att = <<>>
    /\ locations = [u \in Units |-> <<>>]
    /\ queue = <<>>
    /\ jobs = EmptyBag
    /\ scans = PersistedStartScan(EmptyBag, now)
    /\ evals = EmptyBag
    /\ posts = EmptyBag
    /\ restarts = 0
    /\ hist = NoHistory

PersistedNext ==
    \/ PersistedTick
    \/ \E sc \in BagToSet(scans) :
          PersistedQuery(sc) \/ PersistedAdd(sc) \/ PersistedScanError(sc)

PersistedSpec == PersistedInit /\ [][PersistedNext]_vars

----------------------------------------------------------------------------
(* The listener of the `schedule` collection in the persisted-schedule     *)
(* variant (src/unnamed/part_003, lines 199-222; part_002, lines 918-941), *)
(* together with the scan that writes the collection.  `queue` holds the   *)
(* documents the listener of the running process has been given (index in  *)
(* scheduleCollection), `jobs` the timers it has armed, each with the      *)
(* index of its document as key.  A process that starts attaches a new     *)
(* listener, whose first snapshot holds every document of the collection.  *)

\* a change of type 'added' delivered again for a document already given
ScheduleAddedAgain(delivered, coll) == DOMAIN coll

\* snapshot.docChanges() of type 'added': the documents not yet given to the listener
ScheduleAdded(delivered, coll) == {i \in DOMAIN coll : i \notin DOMAIN delivered}

\* the callback of onSnapshot: a timer for every added document whose end is ahead
ScheduleSnapshot ==
    LET added == ScheduleAdded(queue, scheduleCollection)
        ahead == {i \in added : ~(scheduleCollection[i].endTime - getISTDate(now) <= 0)}
    IN /\ added # {}
       /\ jobs' = jobs (+) SetToBag({[key |-> i,
                                      unit |-> <<scheduleCollection[i].userId,
                                                 scheduleCollection[i].subjectId>>,
                                      pc |-> "armed",
                                      fireAt |-> now + (scheduleCollection[i].endTime - getISTDate(now)),
                                      lag |-> 0] : i \in ahead})
       /\ queue' = [i \in DOMAIN queue \cup added |-> TRUE]
       /\ UNCHANGED <<now, subjects, scheduleCollection, processedClasses, sentNotifications, classLoc, att, locations, scans, evals, posts, restarts, hist>>

\* the timer fires and its callback calls sendLocationRequest(userId)
ScheduleTimerFires(j) ==
    /\ j.pc = "armed"
    /\ j.fireAt <= now
    /\ jobs' = Put(Take(jobs, j), [j EXCEPT !.pc = "sending"])
    /\ hist' = [hist EXCEPT !.sentLife = @ \cup {j.key}]
    /\ UNCHANGED <<now, subjects, scheduleCollection, processedClasses, sentNotifications, classLoc, att, locations, queue, scans, evals, posts, restarts>>

\* sendLocationRequest returns: without a push address nothing was sent, and
\* else the message went out (`sent`) or an error was caught
ScheduleSendReturns(j, sent) ==
    /\ j.pc = "sending"
    /\ jobs' = Take(jobs, j)
    /\ hist' = IF HasFcmToken(j.unit[1]) /\ sent
               THEN [hist EXCEPT !.okLife = @ \cup {j.key}]
               ELSE [hist EXCEPT !.failedLife = @ \cup {j.key}]
    /\ UNCHANGED <<now, subjects, scheduleCollection, processedClasses, sentNotifications, classLoc, att, locations, queue, scans, evals, posts, restarts>>

\* the process stops and starts again: timers and listener state are lost, the
\* collection stays, and app.listen's callback calls the initial scan
ScheduleRestart ==
    /\ restarts < MaxRestarts
    /\ restarts' = restarts + 1
    /\ queue' = <<>>
    /\ jobs' = EmptyBag
    /\ scans' = PersistedStartScan(EmptyBag, now)
    /\ hist' = [NoHistory EXCEPT !.sentPrev = hist.sentPrev \cup hist.sentLife]
    /\ UNCHANGED <<now, subjects, scheduleCollection, processedClasses, sentNotifications, classLoc, att, locations, evals, posts>>

\* the minute turns; a timer that is due fires within its minute
ScheduleTick ==
    /\ \A j \in BagToSet(jobs) : j.pc = "armed" => j.fireAt > now
    /\ PersistedTick

\* the module has been loaded: the listener is attached to the empty collection
\* and app.listen's callback has called the initial scan
ScheduleInit ==
    /\ now = StartClock
    /\ subjects \in [{<<"u1", "s1">>, <<"u1", "s2">>} -> 
          {SubjectDoc("Monday", DayEntry("list", <<ClassTime(<<10, 0>>, <<10, 6>>)>>), "unset"),
           SubjectDoc("monday", DayEntry("object", <<ClassTime(<<10, 0>>, <<10, 5>>)>>), "unset"),
           SubjectDoc("Monday", DayEntry("list", <<ClassTime(<<10, 0>>, <<10, 3>>)>>), "unset"),
           SubjectDoc("Tuesday", DayEntry("list", <<StandardClass>>), "unset")}]
    /\ scheduleCollection = <<>>
    /\ processedClasses = {}
    /\ sentNotifications = {}
    /\ classLoc = [u \in Units |-> NoLocation]
    /\ att = <<>>
    /\ locations = [u \in Units |-> <<>>]
    /\ queue = <<>>
    /\ jobs = EmptyBag
    /\ scans = PersistedStartScan(EmptyBag, now)
    /\ evals = EmptyBag
    /\ posts = EmptyBag
    /\ restarts = 0
    /\ hist = NoHistory

ScheduleNext ==
    \/ ScheduleTick
    \/ \E sc \in BagToSet(scans) :
          PersistedQuery(sc) \/ PersistedAdd(sc) \/ PersistedScanError(sc)
    \/ ScheduleSnapshot
    \/ \E j \in BagToSet(jobs) :
          ScheduleTimerFires(j) \/ \E sent \in BOOLEAN : ScheduleSendReturns(j, sent)
    \/ ScheduleRestart

ScheduleSpec == ScheduleInit /\ [][ScheduleNext]_vars

----------------------------------------------------------------------------
(* The start-time queue variant (src/unnamed/part_002, lines 1-215).  A    *)
(* scan arms, for every subject whose class of today starts later, a timer *)
(* that sends the location request at the start time, and stores the timer *)
(* in locationRequestQueue under the key userId_subjectId.  `scans` holds  *)
(* the scans in progress, each awaiting the users query ("users") or the   *)
(* subjects query of user ui ("subjects"); `jobs` holds the timers; `queue` *)
(* maps a key to the instant its last stored timer fires at.               *)

\* lines 152-159 for one subject: "none" when schedule[currentDay] is missing or
\* now < classStart is false, "threw" when startTime is not a string (split is
\* called on undefined), else the delay of the timer
StartQueueDelay(sched, ist, t) ==
    LET currentDay == toLowerCase(getCurrentDay(ist + IstOffsetMin))
    IN IF currentDay \notin DOMAIN sched THEN [kind |-> "none", timeDiff |-> 0]
       ELSE IF sched[currentDay].shape # "object" \/ sched[currentDay].items[1].start = <<>>
       THEN [kind |-> "threw", timeDiff |-> 0]
       ELSE LET startMinutes == timeToMinutes(sched[currentDay].items[1].start)
                classStart == IsoDate(ist) * MinutesPerDay + startMinutes
            IN IF startMinutes # NaN /\ getISTDate(t) < classStart
               THEN [kind |-> "queue", timeDiff |-> classStart - getISTDate(t)]
               ELSE [kind |-> "none", timeDiff |-> 0]

\* the loop of lines 147-175 over the subjects of one user from subject si on,
\* run at instant t: the timers armed and the entries set, up to the end of the
\* list or to a throw
RECURSIVE StartQueueSubjects(_, _, _, _, _, _)
StartQueueSubjects(timers, q, ist, user, si, t) ==
    IF si > Len(SubjectList(user)) THEN [jobs |-> timers, queue |-> q, threw |-> FALSE]
    ELSE LET unit == <<user, SubjectList(user)[si]>>
             d == StartQueueDelay(Schedule(unit), ist, t)
         IN IF d.kind = "threw" THEN [jobs |-> timers, queue |-> q, threw |-> TRUE]
            ELSE IF d.kind = "none" THEN StartQueueSubjects(timers, q, ist, user, si + 1, t)
            ELSE StartQueueSubjects(
                     Put(timers, [key |-> unit, unit |-> unit, pc |-> "armed",
                                  fireAt |-> t + d.timeDiff, lag |-> 0]),
                     [k \in DOMAIN q \cup {unit} |->
                         IF k = unit THEN t + d.timeDiff ELSE q[k]],
                     ist, user, si + 1, t)

\* scanAndQueueClasses() is called at instant t and awaits the users query
StartQueueStartScan(b, t) == Put(b, [ist |-> getISTDate(t), ui |-> 0, pc |-> "users", lag |-> 0])

\* await db.collection('users').get() returns
StartQueueUsersReturn(sc) ==
    /\ sc.pc = "users"
    /\ scans' = IF UserList = <<>> THEN Take(scans, sc)
                ELSE Put(Take(scans, sc), [sc EXCEPT !.pc = "subjects", !.ui = 1, !.lag = 0])
    /\ UNCHANGED <<now, subjects, scheduleCollection, processedClasses, sentNotifications, classLoc, att, locations, queue, jobs, evals, posts, restarts, hist>>

\* await subjectsRef.get() returns and the subjects of the user are gone through
StartQueueSubjectsReturn(sc) ==
    /\ sc.pc = "subjects"
    /\ LET r == StartQueueSubjects(jobs, queue, sc.ist, UserList[sc.ui], 1, now)
       IN /\ jobs' = r.jobs
          /\ queue' = r.queue
          /\ scans' = IF r.threw \/ sc.ui = Len(UserList) THEN Take(scans, sc)
                      ELSE Put(Take(scans, sc), [sc EXCEPT !.ui = @ + 1, !.lag = 0])
    /\ UNCHANGED <<now, subjects, scheduleCollection, processedClasses, sentNotifications, classLoc, att, locations, evals, posts, restarts, hist>>

\* an await of the scan rejects: nothing catches it and the scan ends
StartQueueScanError(sc) ==
    /\ scans' = Take(scans, sc)
    /\ UNCHANGED <<now, subjects, scheduleCollection, processedClasses, sentNotifications, classLoc, att, locations, queue, jobs, evals, posts, restarts, hist>>

\* the callback of lines 165-169: sendLocationRequest only logs, and the entry of
\* the key is deleted
StartQueueTimerFires(j) ==
    /\ j.pc = "armed"
    /\ j.fireAt <= now
    /\ jobs' = Take(jobs, j)
    /\ queue' = DeleteKey(queue, j.key)
    /\ hist' = [hist EXCEPT !.sentLife = @ \cup {j.key}]
    /\ UNCHANGED <<now, subjects, scheduleCollection, processedClasses, sentNotifications, classLoc, att, locations, scans, evals, posts, restarts>>

\* setInterval(scanAndQueueClasses, 60 * 1000): the minute turns and a scan starts.
\* A timer that is due fires within its minute.
StartQueueTick ==
    /\ now < StartClock + MaxStartClock
    /\ \A j \in BagToSet(jobs) : j.fireAt > now
    /\ \A r \in BagToSet(scans) : r.lag < MaxScanLag
    /\ BagCardinality(scans) < MaxScans
    /\ now' = now + 1
    /\ scans' = StartQueueStartScan(Aged(scans), now + 1)
    /\ UNCHANGED <<subjects, scheduleCollection, processedClasses, sentNotifications, classLoc, att, locations, queue, jobs, evals, posts, restarts, hist>>

\* app.listen's callback has called the initial scan
StartQueueInit ==
    /\ now = StartClock
    /\ subjects \in [{<<"u1", "s1">>, <<"u1", "s2">>} -> 
          {SubjectDoc("monday", DayEntry("object", <<ClassTime(<<10, 6>>, <<11, 0>>)>>), "unset"),
           SubjectDoc("monday", DayEntry("object", <<ClassTime(<<10, 7>>, <<11, 0>>)>>), "unset"),
           SubjectDoc("monday", DayEntry("object", <<ClassTime(<<10, 0>>, <<11, 0>>)>>), "unset"),
           SubjectDoc("monday", DayEntry("list", <<StandardClass>>), "unset"),
           SubjectDoc("tuesday", DayEntry("object", <<ClassTime(<<10, 6>>, <<11, 0>>)>>), "unset")}]
    /\ scheduleCollection = <<>>
    /\ processedClasses = {}
    /\ sentNotifications = {}
    /\ classLoc = [u \in Units |-> NoLocation]
    /\ att = <<>>
    /\ locations = [u \in Units |-> <<>>]
    /\ queue = <<>>
    /\ jobs = EmptyBag
    /\ scans = StartQueueStartScan(EmptyBag, now)
    /\ evals = EmptyBag
    /\ posts = EmptyBag
    /\ restarts = 0
    /\ hist = NoHistory

StartQueueNext ==
    \/ StartQueueTick
    \/ \E sc \in BagToSet(scans) :
          StartQueueUsersReturn(sc) \/ StartQueueSubjectsReturn(sc) \/ StartQueueScanError(sc)
    \/ \E j \in BagToSet(jobs) : StartQueueTimerFires(j)

StartQueueSpec == StartQueueInit /\ [][StartQueueNext]_vars

----------------------------------------------------------------------------
(* The duplicate-suppression-set variant (src/unnamed/part_002, lines      *)
(* 217-332).  A scan arms a timer at the middle of a class unless the key  *)
(* userId_subjectId_date is in processedClasses, and adds the key; the     *)
(* timer's callback sends the request and adds the key to                  *)
(* sentNotifications; scheduleMidnightReset arms a timer that empties both *)
(* sets and arms itself again.  The fragment holds neither the start of    *)
(* the process nor sendLocationRequest: the process is taken to start as   *)
(* the variant before it does (lines 205-214), with a call of              *)
(* scheduleMidnightReset, and sendLocationRequest to be the one of lines   *)
(* 182-184, which only logs.  `jobs` holds the timers: those of classes    *)
(* (stage "armed", `day` the date of their key) and the one of the reset   *)
(* (stage "reset").  Instants of a class are counted in half minutes where *)
(* its middle is one.                                                      *)
(* The queries of the scan (lines 223-236) are those of the start-time     *)
(* queue variant, whose actions stand for them here.                       *)

\* lines 252-264: start and end of the first class of scheduleEntry; <<>> for both
\* when the subject is passed over
DailyStartEnd(sched, currentDay) ==
    LET keys == {k \in DOMAIN sched : toLowerCase(k) = currentDay}
        none == ClassTime(<<>>, <<>>)
    IN IF keys = {} THEN none
       ELSE LET scheduleEntry == sched[CHOOSE k \in keys : TRUE]
                first == IF scheduleEntry.shape = "list"
                         THEN IF scheduleEntry.items # <<>> THEN scheduleEntry.items[1] ELSE none
                         ELSE IF scheduleEntry.shape = "object" /\ scheduleEntry.items[1].start # <<>>
                         THEN scheduleEntry.items[1]
                         ELSE none
            IN IF first.start = <<>> \/ first.end = <<>> THEN none ELSE first

\* the loop of lines 238-311 over the subjects of one user from subject si on, run
\* at instant t by a scan that started at ist
RECURSIVE DailySubjects(_, _, _, _, _, _, _)
DailySubjects(timers, q, processed, ist, user, si, t) ==
    IF si > Len(SubjectList(user)) THEN [jobs |-> timers, queue |-> q, processedClasses |-> processed]
    ELSE LET unit == <<user, SubjectList(user)[si]>>
             classTime == DailyStartEnd(Schedule(unit), toLowerCase(getCurrentDay(ist)))
             startMinutes == timeToMinutes(classTime.start)
             endMinutes == timeToMinutes(classTime.end)
             middle2 == IF startMinutes = NaN \/ endMinutes = NaN THEN NaN
                        ELSE 2 * toDateString(ist) * MinutesPerDay + startMinutes + endMinutes
             dailyProcessKey == <<unit, toDateString(ist)>>
             fireAt == ((middle2 + 1) \div 2) - IstOffsetMin
         IN IF \/ classTime.start = <<>>
               \/ dailyProcessKey \in processed
               \/ middle2 = NaN
               \/ 2 * getISTDate(t) >= middle2
            THEN DailySubjects(timers, q, processed, ist, user, si + 1, t)
            ELSE DailySubjects(
                     Put(timers, [key |-> unit, unit |-> unit, pc |-> "armed",
                                  fireAt |-> fireAt, day |-> toDateString(ist), lag |-> 0]),
                     [k \in DOMAIN q \cup {unit} |-> IF k = unit THEN fireAt ELSE q[k]],
                     processed \cup {dailyProcessKey},
                     ist, user, si + 1, t)

\* await subjectsRef.get() returns and the subjects of the user are gone through
DailySubjectsReturn(sc) ==
    /\ sc.pc = "subjects"
    /\ LET r == DailySubjects(jobs, queue, processedClasses, sc.ist, UserList[sc.ui], 1, now)
       IN /\ jobs' = r.jobs
          /\ queue' = r.queue
          /\ processedClasses' = r.processedClasses
    /\ scans' = IF sc.ui = Len(UserList) THEN Take(scans, sc)
                ELSE Put(Take(scans, sc), [sc EXCEPT !.ui = @ + 1, !.lag = 0])
    /\ UNCHANGED <<now, subjects, scheduleCollection, sentNotifications, classLoc, att, locations, evals, posts, restarts, hist>>

\* the callback of lines 301-306 (history: hist.sentLife keeps every key sent)
DailyTimerFires(j) ==
    /\ j.pc = "armed"
    /\ j.fireAt <= now
    /\ jobs' = Take(jobs, j)
    /\ sentNotifications' = sentNotifications \cup {<<j.unit, j.day>>}
    /\ queue' = DeleteKey(queue, j.key)
    /\ hist' = [hist EXCEPT !.sentLife = @ \cup {<<j.unit, j.day>>}]
    /\ UNCHANGED <<now, subjects, scheduleCollection, processedClasses, classLoc, att, locations, scans, evals, posts, restarts>>

\* the delay of 24 hours a reset would get without setHours(0, 0, 0, 0)
timeUntilMidnightUnset(ist) == MinutesPerDay

\* lines 319-324: tomorrow.getTime() - now.getTime(), in minutes
timeUntilMidnight(ist) == (toDateString(ist) + 1) * MinutesPerDay - ist

\* scheduleMidnightReset() called at instant t: the timer it arms
ResetTimer(t) ==
    [key |-> <<"reset", "reset">>, unit |-> <<"reset", "reset">>, pc |-> "reset",
     fireAt |-> t + timeUntilMidnight(getISTDate(t)), day |-> 0, lag |-> 0]

\* the callback of lines 326-331
MidnightReset(j) ==
    /\ j.pc = "reset"
    /\ j.fireAt <= now
    /\ sentNotifications' = {}
    /\ processedClasses' = {}
    /\ jobs' = Put(Take(jobs, j), ResetTimer(now))
    /\ UNCHANGED <<now, subjects, scheduleCollection, classLoc, att, locations, queue, scans, evals, posts, restarts, hist>>

\* setInterval(scanAndQueueClasses, 60 * 1000): the minute turns and a scan starts.
\* A timer that is due fires within its minute.
DailyTick ==
    /\ now < ClockOn(1, 23, 55) + MaxNight
    /\ \A j \in BagToSet(jobs) : j.fireAt > now
    /\ \A r \in BagToSet(scans) : r.lag < MaxScanLag
    /\ BagCardinality(scans) < MaxScans
    /\ now' = now + 1
    /\ scans' = StartQueueStartScan(Aged(scans), now + 1)
    /\ UNCHANGED <<subjects, scheduleCollection, processedClasses, sentNotifications, classLoc, att, locations, queue, jobs, evals, posts, restarts, hist>>

\* the process starts: the reset timer is armed and the initial scan is called
DailyInit ==
    /\ now \in {ClockOn(1, 23, 53), ClockOn(1, 23, 55)}
    /\ subjects \in [{<<"u1", "s1">>, <<"u1", "s2">>} -> 
          {SubjectDoc("Monday", DayEntry("list", <<ClassTime(<<23, 54>>, <<23, 58>>)>>), "unset"),
           SubjectDoc("monday", DayEntry("object", <<ClassTime(<<23, 56>>, <<23, 59>>)>>), "unset"),
           SubjectDoc("Monday", DayEntry("list", <<ClassTime(<<23, 40>>, <<23, 50>>)>>), "unset"),
           SubjectDoc("Tuesday", DayEntry("list", <<ClassTime(<<0, 0>>, <<0, 2>>)>>), "unset")}]
    /\ scheduleCollection = <<>>
    /\ processedClasses = {}
    /\ sentNotifications = {}
    /\ classLoc = [u \in Units |-> NoLocation]
    /\ att = <<>>
    /\ locations = [u \in Units |-> <<>>]
    /\ queue = <<>>
    /\ jobs = SetToBag({ResetTimer(now)})
    /\ scans = StartQueueStartScan(EmptyBag, now)
    /\ evals = EmptyBag
    /\ posts = EmptyBag
    /\ restarts = 0
    /\ hist = NoHistory

DailyNext ==
    \/ DailyTick
    \/ \E sc \in BagToSet(scans) :
          StartQueueUsersReturn(sc) \/ DailySubjectsReturn(sc) \/ StartQueueScanError(sc)
    \/ \E j \in BagToSet(jobs) : DailyTimerFires(j) \/ MidnightReset(j)

DailySpec == DailyInit /\ [][DailyNext]_vars

----------------------------------------------------------------------------
(* The variant with correction endpoints (src/unnamed/part_002, lines      *)
(* 334-1070): the listener of the `locations` collection marks attendance  *)
(* for the subject whose class has just ended (lines 386-513), and the     *)
(* requests /remove-present, /proxy-done and /class-cancelled correct a    *)
(* record (lines 766-851).  `posts` holds the listener callbacks in        *)
(* progress, each awaiting the read ("readAtt") or the write ("write") of  *)
(* the attendance document.  The `records` document the listener adds      *)
(* after its write is not part of the ledger.                              *)

\* FieldValue.arrayRemove(day)
arrayRemove(arr, day) == SelectSeq(arr, LAMBDA x : x # day)

\* attendanceRef.update({present: ..., absent: ...}): rejects when the document
\* does not exist, and else changes both arrays in one write; remove is the array
\* the day is removed from ("present", "absent" or "both"), add the array it is
\* added to ("present" or "none")
UpdateDoc(a, unit, monthYear, dayNumber, remove, add) ==
    IF <<unit, monthYear>> \notin DOMAIN a THEN a
    ELSE [a EXCEPT ![<<unit, monthYear>>] =
             [present |-> IF add = "present" THEN arrayUnion(@.present, dayNumber)
                          ELSE IF remove \in {"present", "both"}
                          THEN arrayRemove(@.present, dayNumber)
                          ELSE @.present,
              absent |-> IF remove \in {"absent", "both"} THEN arrayRemove(@.absent, dayNumber)
                         ELSE @.absent]]

\* dayNumber of the request bodies
CorrectionDays == {1, 2, 3}

\* POST /remove-present (lines 766-792)
RemovePresent(unit, dayNumber, monthYear) ==
    /\ att' = UpdateDoc(att, unit, monthYear, dayNumber, "present", "none")
    /\ UNCHANGED <<now, subjects, scheduleCollection, processedClasses, sentNotifications, classLoc, locations, queue, jobs, scans, evals, posts, restarts, hist>>

\* POST /proxy-done (lines 795-822)
ProxyDone(unit, dayNumber, monthYear) ==
    /\ att' = UpdateDoc(att, unit, monthYear, dayNumber, "absent", "present")
    /\ UNCHANGED <<now, subjects, scheduleCollection, processedClasses, sentNotifications, classLoc, locations, queue, jobs, scans, evals, posts, restarts, hist>>

\* POST /class-cancelled (lines 825-851)
ClassCancelled(unit, dayNumber, monthYear) ==
    /\ att' = UpdateDoc(att, unit, monthYear, dayNumber, "absent", "none")
    /\ UNCHANGED <<now, subjects, scheduleCollection, processedClasses, sentNotifications, classLoc, locations, queue, jobs, scans, evals, posts, restarts, hist>>

\* Lines 398-438: the subjects of the user whose class ended at most 10 minutes
\* before the clock read; the listener takes the first
JustEnded(user, ist) ==
    SelectSeq(SubjectList(user),
              LAMBDA sub :
                 LET endTime == PersistedEndTime(Schedule(<<user, sub>>),
                                                 toLowerCase(getCurrentDay(ist)))
                     endMinutes == timeToMinutes(endTime)
                 IN /\ endTime # <<>>
                    /\ endMinutes # NaN
                    /\ MinutesOfDay(ist) - endMinutes >= 0
                    /\ MinutesOfDay(ist) - endMinutes <= 10)

\* The listener is handed an added location document of the user: it reads the
\* clock, finds the subject, computes the distance and goes on to the read of the
\* attendance document (lines 386-467).
ListenerDelivers(user, body) ==
    /\ BagCardinality(posts) < MaxListeners
    /\ ~MissingFields(body)
    /\ LET istDate == getISTDate(now)
           matched == JustEnded(user, istDate)
       IN posts' = IF matched = <<>> \/ ClassLocationMissing(classLoc[<<user, matched[1]>>])
                   THEN posts
                   ELSE Put(posts,
                            [unit |-> <<user, matched[1]>>, pc |-> "readAtt", lag |-> 0,
                             day |-> getDate(istDate), monthYear |-> MonthYear(istDate),
                             within |-> WithinRange(body.latitude, body.longitude,
                                                    classLoc[<<user, matched[1]>>])])
    /\ UNCHANGED <<now, subjects, scheduleCollection, processedClasses, sentNotifications, classLoc, att, locations, queue, jobs, scans, evals, restarts, hist>>

\* await attendanceRef.get() and the test of line 474
ListenerReadAttendance(p) ==
    /\ p.pc = "readAtt"
    /\ LET attendanceData == AttendanceData(att, p.unit, p.monthYear)
       IN posts' = IF ~Includes(attendanceData.present, p.day)
                      /\ ~Includes(attendanceData.absent, p.day)
                   THEN Put(Take(posts, p), [p EXCEPT !.pc = "write"])
                   ELSE Take(posts, p)
    /\ UNCHANGED <<now, subjects, scheduleCollection, processedClasses, sentNotifications, classLoc, att, locations, queue, jobs, scans, evals, restarts, hist>>

\* await attendanceRef.set(...) of line 476 or of line 492
ListenerWrite(p) ==
    /\ p.pc = "write"
    /\ att' = SetMerge(att, p.unit, p.monthYear,
                       IF p.within THEN "present" ELSE "absent", p.day)
    /\ posts' = Take(posts, p)
    /\ UNCHANGED <<now, subjects, scheduleCollection, processedClasses, sentNotifications, classLoc, locations, queue, jobs, scans, evals, restarts, hist>>

\* an await of the callback rejects
ListenerError(p) ==
    /\ posts' = Take(posts, p)
    /\ UNCHANGED <<now, subjects, scheduleCollection, processedClasses, sentNotifications, classLoc, att, locations, queue, jobs, scans, evals, restarts, hist>>

\* two minutes after the end of the class of the standard subject
CorrectionInit ==
    /\ now = ClockAt(10, 12)
    /\ subjects = [u \in {<<"u1", "s1">>} |-> StandardDoc]
    /\ scheduleCollection = <<>>
    /\ processedClasses = {}
    /\ sentNotifications = {}
    /\ classLoc = [u \in Units |-> [has |-> TRUE, latitude |-> 10, longitude |-> 10,
                                     accuracy |-> 0]]
    /\ att = <<>>
    /\ locations = [u \in Units |-> <<>>]
    /\ queue = <<>>
    /\ jobs = EmptyBag
    /\ scans = EmptyBag
    /\ evals = EmptyBag
    /\ posts = EmptyBag
    /\ restarts = 0
    /\ hist = NoHistory

CorrectionNext ==
    \/ \E body \in SampleInputs : ListenerDelivers("u1", body)
    \/ \E p \in BagToSet(posts) :
          ListenerReadAttendance(p) \/ ListenerWrite(p) \/ ListenerError(p)
    \/ \E u \in Units, d \in CorrectionDays :
          LET monthYear == MonthYear(getISTDate(now))
          IN RemovePresent(u, d, monthYear) \/ ProxyDone(u, d, monthYear)
                \/ ClassCancelled(u, d, monthYear)

CorrectionSpec == CorrectionInit /\ [][CorrectionNext]_vars

----------------------------------------------------------------------------
(* Properties *)

Days == 1..DaysPerMonth

\* C1: no day-of-month is in both `present` and `absent` of one attendance record.
C1_Exclusive ==
    \A k \in DOMAIN att : \A d \in Days :
        ~(Includes(att[k].present, d) /\ Includes(att[k].absent, d))

\* C2: within one process lifetime a location request is dispatched at most once
\* for a key: no dispatch timer fires for a key already dispatched in this lifetime.
C2_OneDispatchPerLifetime ==
    [][\A j \in BagToSet(jobs) : DispatchTimerFires(j) => j.key \notin hist.sentLife]_vars

JobsOf(key) == [j \in {x \in BagToSet(jobs) : x.key = key} |-> jobs[j]]

\* C3: whatever scans have run, every entry of locationRequestQueue has exactly one
\* armed timer or running callback (dispatch timer, send, grace timer or
\* evaluation), and there is none without an entry.
C3_OneJobPerKey ==
    /\ \A k \in DOMAIN queue : BagCardinality(JobsOf(k)) = 1
    /\ \A j \in BagToSet(jobs) : j.key \in DOMAIN queue

\* A scan has found the key queued while its dispatch timer was armed, another
\* while its grace timer was armed, and the entry is still there.
C3_Witness ==
    /\ hist.dup = {"armed", "grace"}
    /\ \E k \in DOMAIN queue : \E j \in BagToSet(jobs) : j.key = k /\ j.pc = "grace"

\* C4: after a restart no location request is dispatched for a key whose location
\* request was sent before the restart.
C4_NoDispatchAfterRestart ==
    [][\A j \in BagToSet(jobs) : DispatchTimerFires(j) => j.key \notin hist.sentPrev]_vars

EvalStep(e) == EvalReadAttendance(e) \/ EvalReadLocations(e) \/ EvalWrite(e)

PostStep(p) == PostReadAttendance(p) \/ PostWrite(p)

\* C5: a call of the evaluator (checkAndMarkAttendance from a grace callback or from
\* /api/test-attendance, or the marking part of /api/location) made when the day is
\* already decided leaves every attendance record as it is.
C5_Idempotent ==
    [][/\ \A e \in BagToSet(evals) : (e.after /\ EvalStep(e)) => att' = att
       /\ \A p \in BagToSet(posts) : (p.after /\ PostStep(p)) => att' = att]_vars

\* The day is decided, and a test call and a location request made after the
\* decision are both in progress.
C5_Witness ==
    /\ \E e \in BagToSet(evals) : e.after /\ e.origin = "test"
                                  /\ Decided(att, e.unit, e.monthYear, e.day)
    /\ \E p \in BagToSet(posts) : p.after /\ Decided(att, p.unit, p.monthYear, p.day)

\* the grace-window evaluation e returns without an I/O error
Completes(e) == e.origin = "job" /\ EvalStep(e) /\ e.key \notin DOMAIN queue'

\* C6: when no sample of the unit was stored before the grace timer fired, the
\* record holds the dispatch day once in `absent` and not in `present` after the
\* grace-window evaluation.
C6_NoShowAbsent ==
    [][\A e \in BagToSet(evals) : (e.noShow /\ Completes(e)) =>
          LET data == AttendanceData(att', e.unit, e.monthYear)
          IN Occurrences(data.absent, e.day) = 1 /\ ~Includes(data.present, e.day)]_vars

\* C7: once the dispatch of a key has failed, no scan queues the key again and no
\* further location request is sent for it.
C7_FailedDispatchTerminal ==
    [][\A k \in hist.failedLife :
          /\ k \in DOMAIN queue' => k \in DOMAIN queue
          /\ \A j \in BagToSet(jobs) : j.key = k => ~DispatchTimerFires(j)]_vars

\* C8: checkAndMarkAttendance writes no decision for a subject that has no class
\* location.
C8_NoLocationNoDecision ==
    [][\A e \in BagToSet(evals) : (~classLoc[e.unit].has /\ EvalStep(e)) => att' = att]_vars

\* C9: when the grace-window evaluation reads a freshest sample captured within
\* the window before the evaluation instant and within the radius, it decides
\* present.
C9_TimelySamplePresent ==
    [][\A e \in BagToSet(evals) :
          LET snapshot == locations[e.unit]
              loc == classLoc[e.unit]
          IN (/\ e.origin = "job"
              /\ EvalReadLocations(e)
              /\ snapshot # <<>>
              /\ snapshot[1].timestamp >= now - GraceMin
              /\ loc.has
              /\ WithinRange(snapshot[1].latitude, snapshot[1].longitude, loc))
             => \E e2 \in BagToSet(evals') :
                   e2.unit = e.unit /\ e2.origin = e.origin /\ e2.decision = "present"]_vars

\* C10: the handler of a sample that arrived while the unit had no open job, and
\* that has none now, changes no attendance record.
C10_NoJobNoDecision ==
    [][\A p \in BagToSet(posts) :
          (~p.open /\ ~OpenJob(p.unit) /\ PostStep(p)) => att' = att]_vars

----------------------------------------------------------------------------
(* Properties of the scan *)

\* the unit and the class whose attendance document the scan sc reads
ScanUnit(sc) == <<UserList[sc.ui], SubjectList(UserList[sc.ui])[sc.si]>>

ScanClass(sc) == ClassList(ScanUnit(sc), getCurrentDay(sc.ist))[sc.ci]

\* C11: when a read of one (user, subject) unit fails during a scan and a later
\* unit of the same scan has a class to examine, the scan goes on to that unit.
C11_FailureIsolation ==
    [][\A sc \in BagToSet(scans) :
          LET rest == NextClass(sc.ist, sc.ui, sc.si + 1, 1)
          IN (ScanError(sc) /\ rest.pc = "att") =>
                CopiesIn(ScanAt(sc.ist, rest), scans') > CopiesIn(ScanAt(sc.ist, rest), scans)]_vars

\* C12: a day entry given as one object {start, end} yields the same classes as
\* the same entry given as a one-element list.
C12_ObjectAsList ==
    \A u \in Units :
        LET day == getCurrentDay(getISTDate(now))
            schedule == Schedule(u)
        IN (day \in DOMAIN schedule /\ schedule[day].shape = "object") =>
              DayClasses(schedule, day) =
                 DayClasses([schedule EXCEPT ![day] = DayEntry("list", schedule[day].items)], day)

\* C13: a schedule key that equals today's day name up to letter case gives the
\* subject the classes written under that key.
C13_CaseInsensitiveDay ==
    \A u \in Units :
        LET day == getCurrentDay(getISTDate(now))
        IN \A key \in DOMAIN Schedule(u) :
              toLowerCase(key) = toLowerCase(day) =>
                 DayClasses(Schedule(u), day) =
                    DayClasses([k \in {day} |-> Schedule(u)[key]], day)

\* a time string that is there and is not HH:MM
Malformed(timeStr) == timeStr # <<>> /\ timeToMinutes(timeStr) = NaN

\* C14: the scan creates no queue entry and arms no timer for a class whose start
\* or end is not parseable as HH:MM.
C14_MalformedSkipped ==
    [][\A sc \in BagToSet(scans) :
          (/\ ScanReadAttendance(sc)
           /\ Malformed(ScanClass(sc).start) \/ Malformed(ScanClass(sc).end))
          => UNCHANGED <<queue, jobs>>]_vars

\* C15: the trigger minute m queued for a class [start, end] with start <= end is
\* floor((start + end) / 2), that is 2m <= start + end < 2m + 2, and lies in
\* [start, end]; [540, 600] gives 570.
C15_MidpointTrigger ==
    [][\A sc \in BagToSet(scans) :
          LET startMinutes == timeToMinutes(ScanClass(sc).start)
              endMinutes == timeToMinutes(ScanClass(sc).end)
              key == <<ScanUnit(sc), IsoDate(sc.ist)>>
          IN (/\ ScanReadAttendance(sc)
              /\ startMinutes # NaN /\ endMinutes # NaN /\ startMinutes <= endMinutes
              /\ key \notin DOMAIN queue /\ key \in DOMAIN queue')
             => LET m == queue'[key].middleTime
                IN /\ 2 * m <= startMinutes + endMinutes
                   /\ startMinutes + endMinutes < 2 * m + 2
                   /\ startMinutes <= m /\ m <= endMinutes
                   /\ (startMinutes = 540 /\ endMinutes = 600) => m = 570]_vars

\* a class from 09:00 to 10:00 is queued with trigger minute 570
C15_Witness ==
    \E key \in DOMAIN queue :
        /\ queue[key].middleTime = 570
        /\ Schedule(key[1])["Monday"].items[1] = ClassTime(<<9, 0>>, <<10, 0>>)

\* C20: a scan queues no job for a subject whose automatic-verification flag is
\* off.
C20_OnlyOptedIn ==
    [][\A sc \in BagToSet(scans) :
          (ScanReadAttendance(sc) /\ subjects[ScanUnit(sc)].autoVerify = "off")
          => UNCHANGED <<queue, jobs>>]_vars

\* C16: when a scan is about to queue an undecided class whose midpoint minute has
\* passed and whose end minute has not (current minute <= end minute), and the key
\* is not queued, it queues the key with a timer of zero delay.
C16_LateScanFiresAtOnce ==
    [][\A sc \in BagToSet(scans) :
          LET startMinutes == timeToMinutes(ScanClass(sc).start)
              endMinutes == timeToMinutes(ScanClass(sc).end)
              currentMinutes == MinutesOfDay(getISTDate(now))
              key == <<ScanUnit(sc), IsoDate(sc.ist)>>
          IN (/\ key \notin DOMAIN queue
              /\ startMinutes # NaN /\ endMinutes # NaN
              /\ 2 * currentMinutes > startMinutes + endMinutes
              /\ currentMinutes <= endMinutes
              /\ ~Decided(att, ScanUnit(sc), MonthYear(sc.ist), getDate(sc.ist))
              /\ ScanReadAttendance(sc))
             => /\ key \in DOMAIN queue'
                /\ \E j \in BagToSet(jobs') :
                      j.key = key /\ j.pc = "armed" /\ j.fireAt = now]_vars

\* at the end minute of the class a timer of zero delay is armed for its key
C16_Witness ==
    \E j \in BagToSet(jobs) :
        /\ j.pc = "armed" /\ j.fireAt = now /\ j.key \in DOMAIN queue
        /\ MinutesOfDay(getISTDate(now)) = timeToMinutes(StandardClass.end)
        /\ queue[j.key].middleTime < MinutesOfDay(getISTDate(now))

----------------------------------------------------------------------------
(* Properties of the decision by distance *)

\* C17: with a class location set, the handler of /api/location writes the day to
\* `present` when the distance of its sample is at most the radius and to `absent`
\* when it is above; checkAndMarkAttendance decides the same way on a sample
\* that passes its age test.
C17_InclusiveBoundary ==
    [][/\ \A p \in BagToSet(posts) :
            LET loc == classLoc[p.unit]
                distance == calculateDistance(p.latitude, p.longitude,
                                              loc.latitude, loc.longitude)
                old == AttendanceData(att, p.unit, p.monthYear)
                new == AttendanceData(att', p.unit, p.monthYear)
            IN PostWrite(p) =>
                  IF distance <= accuracyThreshold(loc)
                  THEN Includes(new.present, p.day) /\ new.absent = old.absent
                  ELSE Includes(new.absent, p.day) /\ new.present = old.present
       /\ \A e \in BagToSet(evals) :
            LET loc == classLoc[e.unit]
                snapshot == locations[e.unit]
            IN (/\ e.pc = "readLoc"
                /\ snapshot # <<>>
                /\ ~LocationTooOld(snapshot[1].timestamp, e.tenMinutesAgo)
                /\ ~ClassLocationMissing(loc)
                /\ EvalReadLocations(e))
               => \E e2 \in BagToSet(evals') :
                     /\ e2.unit = e.unit /\ e2.pc = "write"
                     /\ e2.decision =
                           IF calculateDistance(snapshot[1].latitude, snapshot[1].longitude,
                                                loc.latitude, loc.longitude)
                                 <= accuracyThreshold(loc)
                           THEN "present" ELSE "absent"]_vars

\* a sample whose distance equals the radius (25 units, 278 m): the handler of
\* /api/location and the evaluator are both about to write present
C17_Witness ==
    /\ \E p \in BagToSet(posts) :
          /\ p.pc = "write" /\ p.within
          /\ calculateDistance(p.latitude, p.longitude, classLoc[p.unit].latitude,
                                classLoc[p.unit].longitude) = accuracyThreshold(classLoc[p.unit])
    /\ \E e \in BagToSet(evals) :
          /\ e.pc = "write" /\ e.decision = "present"
          /\ calculateDistance(locations[e.unit][1].latitude, locations[e.unit][1].longitude,
                                classLoc[e.unit].latitude, classLoc[e.unit].longitude)
                = accuracyThreshold(classLoc[e.unit])

\* C18: for a class at (0,0) with radius 50 m, a sample at (0,0) is accepted and
\* within the radius, and a sample at (0.0005, 0) is accepted and outside it.
C18_ZeroCoordinatesValid ==
    \A u \in Units :
        (classLoc[u] = ClassAtOrigin /\ BagCardinality(posts) < MaxPosts) =>
           /\ ~ClassLocationMissing(classLoc[u])
           /\ ENABLED PostLocation(u, SampleAtOrigin)
           /\ ENABLED PostLocation(u, SampleNearOrigin)
           /\ WithinRange(SampleAtOrigin.latitude, SampleAtOrigin.longitude, classLoc[u])
           /\ ~WithinRange(SampleNearOrigin.latitude, SampleNearOrigin.longitude, classLoc[u])

----------------------------------------------------------------------------
(* Property of the life of a queue entry *)

\* the keys a scan of day 1 queues
QueueKeys == {<<<<"u1", "s1">>, IsoDate(getISTDate(StartClock))>>}

\* C19: every entry placed in locationRequestQueue is eventually removed.
C19_NoInfiniteWait ==
    \A key \in QueueKeys : (key \in DOMAIN queue) ~> (key \notin DOMAIN queue)

\* an entry whose location request was sent has been removed after its evaluation
C19_Witness ==
    \E key \in QueueKeys : key \in hist.okLife /\ key \notin DOMAIN queue /\ jobs = EmptyBag

----------------------------------------------------------------------------
(* Properties of the ledger *)

\* C21: no step of the engine removes a day from `present` or from `absent`: a
\* record stays, and a day that is in one of its arrays is in that array after
\* the step.
C21_AppendOnly ==
    [][\A k \in DOMAIN att :
          /\ k \in DOMAIN att'
          /\ \A d \in Days :
                /\ Includes(att[k].present, d) => Includes(att'[k].present, d)
                /\ Includes(att[k].absent, d) => Includes(att'[k].absent, d)]_vars

\* a record that was written twice: the second write (to the other array) has
\* kept the day the first one wrote
C21_Witness ==
    \E k \in DOMAIN att : att[k].present # <<>> /\ att[k].absent # <<>>

\* C22: no dispatch timer fires (no location request is sent) for a unit whose
\* day is in `present` or `absent` at that moment.
C22_NoDispatchWhenDecided ==
    [][\A j \in BagToSet(jobs) :
          DispatchTimerFires(j) =>
             ~Decided(att, j.unit, MonthYear(getISTDate(now)), getDate(getISTDate(now)))]_vars

----------------------------------------------------------------------------
(* Properties of concurrent scans and of the stages of a job *)

\* C23: at most one execution of scanAndQueueClasses is in progress.
C23_OneScanAtATime == BagCardinality(scans) <= 1

\* the stages of a queue entry, in the order of lines 232-251
StageRank(pc) ==
    CASE pc = "armed" -> 1 [] pc = "sending" -> 2 [] pc = "grace" -> 3 [] pc = "evaluating" -> 4

\* the grace-window evaluations of key k in the bag b
EvalsOf(b, k) == {e \in BagToSet(b) : e.origin = "job" /\ e.key = k}

\* C24: while the process runs, the job of a queue entry goes from stage to stage
\* in order and never back: the grace timer is armed for 5 minutes when the
\* dispatch returned success, the evaluation starts (once) when that timer is due,
\* and the entry is removed only when the dispatch failed or the evaluation
\* returned, after which neither a job nor an evaluation of the entry is left.
C24_StageOrder ==
    [][restarts' = restarts =>
         \A k \in DOMAIN queue :
            IF k \in DOMAIN queue'
            THEN /\ \A j2 \in BagToSet(jobs') : j2.key = k =>
                       \E j \in BagToSet(jobs) :
                          /\ j.key = k
                          /\ StageRank(j2.pc) \in {StageRank(j.pc), StageRank(j.pc) + 1}
                          /\ (j.pc = "sending" /\ j2.pc = "grace") =>
                                k \in hist'.okLife /\ j2.fireAt = now + GraceMin
                          /\ (j.pc = "grace" /\ j2.pc = "evaluating") =>
                                /\ k \in hist.okLife /\ j.fireAt <= now
                                /\ EvalsOf(evals, k) = {}
                                /\ BagCardinality(OfOrigin(evals', "job")) =
                                      BagCardinality(OfOrigin(evals, "job")) + 1
                 /\ EvalsOf(evals', k) # {} =>
                       \E j2 \in BagToSet(jobs') : j2.key = k /\ j2.pc = "evaluating"
            ELSE /\ \/ \E j \in BagToSet(jobs) :
                          j.key = k /\ j.pc = "sending" /\ k \in hist'.failedLife
                    \/ \E j \in BagToSet(jobs) :
                          /\ j.key = k /\ j.pc = "evaluating"
                          /\ EvalsOf(evals, k) # {}
                 /\ EvalsOf(evals', k) = {}
                 /\ \A j2 \in BagToSet(jobs') : j2.key # k]_vars

\* an entry whose dispatch succeeded and whose grace timer has run out is being
\* evaluated: the evaluation is about to write its decision
C24_Witness ==
    \E j \in BagToSet(jobs) :
        /\ j.pc = "evaluating" /\ j.key \in DOMAIN queue /\ j.key \in hist.okLife
        /\ \E e \in EvalsOf(evals, j.key) : e.pc = "write"

\* C27: when the dispatch of a job fails, its queue entry is removed, no timer of
\* the key is left armed, no evaluation is started and no attendance record
\* changes; and an evaluation of a key runs only for a job whose dispatch has
\* succeeded.
C27_FailedDispatchFrame ==
    [][/\ \A j \in BagToSet(jobs) :
            (j.pc = "sending" /\ SendReturns(j, FALSE)) =>
               /\ j.key \notin DOMAIN queue'
               /\ \A j2 \in BagToSet(jobs') : j2.key # j.key
               /\ evals' = evals
               /\ att' = att
       /\ \A e \in BagToSet(evals') :
            e.origin = "job" =>
               \E j2 \in BagToSet(jobs') :
                  j2.key = e.key /\ j2.pc = "evaluating" /\ j2.key \in hist'.okLife]_vars

\* the dispatch of a key has failed: its entry is gone, no timer is armed and no
\* record has been written
C27_Witness ==
    \E key \in hist.failedLife :
        key \notin DOMAIN queue /\ jobs = EmptyBag /\ evals = EmptyBag /\ att = <<>>

\* C28: the `schedule` collection holds no two documents with the same userId,
\* subjectId and date.
C28_UniqueScheduleRecord ==
    \A i, j \in DOMAIN scheduleCollection :
        i # j => <<scheduleCollection[i].userId, scheduleCollection[i].subjectId,
                   scheduleCollection[i].date>>
                 # <<scheduleCollection[j].userId, scheduleCollection[j].subjectId,
                     scheduleCollection[j].date>>

----------------------------------------------------------------------------
(* Properties of the calendar *)

\* C25: a job that a scan places in the queue for a class has a fire time on the
\* date in its key, from the midpoint minute to the end minute of the class.
C25_FireTimeInClass ==
    [][\A sc \in BagToSet(scans) :
          LET key == <<ScanUnit(sc), IsoDate(sc.ist)>>
              startMinutes == timeToMinutes(ScanClass(sc).start)
              endMinutes == timeToMinutes(ScanClass(sc).end)
          IN (key \notin DOMAIN queue /\ ScanReadAttendance(sc) /\ key \in DOMAIN queue')
             => \A j \in BagToSet(jobs') :
                   (j.key = key /\ j.pc = "armed") =>
                      LET fire == getISTDate(j.fireAt)
                      IN /\ IsoDate(fire) = key[2]
                         /\ middleMinutes(startMinutes, endMinutes) <= MinutesOfDay(fire)
                         /\ MinutesOfDay(fire) <= endMinutes]_vars

\* C26: when a scan queues a job, the interval it queues is the one whose record
\* it has just read, the end minute of that interval is not before the scan's
\* current minute, and the record read has today's day-of-month neither in
\* `present` nor in `absent`.
C26_ScanSkips ==
    [][\A sc \in BagToSet(scans) :
          LET key == <<ScanUnit(sc), IsoDate(sc.ist)>>
              startMinutes == timeToMinutes(ScanClass(sc).start)
              endMinutes == timeToMinutes(ScanClass(sc).end)
              record == AttendanceData(att, ScanUnit(sc), MonthYear(sc.ist))
          IN (key \notin DOMAIN queue /\ key \in DOMAIN queue' /\ ScanReadAttendance(sc))
             => /\ queue'[key].middleTime = middleMinutes(startMinutes, endMinutes)
                /\ ~(endMinutes < MinutesOfDay(sc.ist))
                /\ ~Includes(record.present, getDate(sc.ist))
                /\ ~Includes(record.absent, getDate(sc.ist))]_vars

\* a scan has passed over the first class of the day, which is finished, and
\* awaits the record of the second, which is decided while its key is not queued
C26_Witness ==
    \E sc \in BagToSet(scans) :
        /\ sc.ci = 2
        /\ ClassFinished(ClassList(ScanUnit(sc), getCurrentDay(sc.ist))[1], MinutesOfDay(sc.ist))
        /\ Decided(att, ScanUnit(sc), MonthYear(sc.ist), getDate(sc.ist))
        /\ <<ScanUnit(sc), IsoDate(sc.ist)>> \notin DOMAIN queue

\* the month that contains the calendar date of a Date (the date getDate() is the
\* day-of-month of)
MonthOfDate(d) == d \div (MinutesPerDay * DaysPerMonth)

\* C29: wherever the engine derives a day-of-month and a month-year key from a
\* clock read (the dispatch callback, the handler of /api/location, the scan),
\* the month of the key is the month of the date whose day-of-month is taken.
C29_MonthOfDay ==
    [][/\ \A j \in BagToSet(jobs') :
            (j.pc = "sending" /\ j.lag = 0 /\ now' = now /\ j \notin BagToSet(jobs)) =>
               /\ j.day = getDate(getISTDate(now))
               /\ j.monthYear = MonthOfDate(getISTDate(now))
       /\ \A p \in BagToSet(posts') :
            (p.pc = "readAtt" /\ p.lag = 0 /\ now' = now /\ p \notin BagToSet(posts)) =>
               /\ p.day = getDate(getISTDate(now))
               /\ p.monthYear = MonthOfDate(getISTDate(now))
       /\ \A sc \in BagToSet(scans') : MonthYear(sc.ist) = MonthOfDate(sc.ist)]_vars

\* C30: when the grace-window evaluation of a job writes its decision, the day
\* written is the day-of-month of the instant at which the dispatch fired, and the
\* record written is the one of the month of that instant.
C30_DecidesDispatchDay ==
    [][\A e \in BagToSet(evals) :
          (e.origin = "job" /\ e.pc = "write" /\ EvalWrite(e)) =>
             \A j \in BagToSet(jobs) :
                (j.key = e.key /\ j.pc = "evaluating") =>
                   LET fired == getISTDate(j.firedAt)
                       record == AttendanceData(att', e.unit, MonthOfDate(fired))
                   IN Includes(IF e.decision = "present" THEN record.present
                               ELSE record.absent, getDate(fired))]_vars

----------------------------------------------------------------------------
(* Properties of the variants *)

\* C31: in the variant with correction endpoints no step leaves a day in both
\* `present` and `absent` of a record, and /proxy-done on an existing record leaves
\* its day in `present` and not in `absent`.
C31_ExclusiveUnderCorrections ==
    [][/\ \A k \in DOMAIN att' : \A d \in Days :
            ~(Includes(att'[k].present, d) /\ Includes(att'[k].absent, d))
       /\ \A u \in Units, d \in CorrectionDays :
            LET k == <<u, MonthYear(getISTDate(now))>>
            IN (k \in DOMAIN att /\ ProxyDone(u, d, k[2])) =>
                  Includes(att'[k].present, d) /\ ~Includes(att'[k].absent, d)]_vars

\* C32: a user without a push address is skipped by the scan: no scan awaits a
\* read for a subject of that user, no queue entry, no job and no dispatch exists
\* for any of that user's subjects, and a scan that starts goes on to the first
\* unfinished class of the users that follow.
C32_SkipsUserWithoutToken ==
    [][/\ \A sc \in BagToSet(scans') : FcmToken(UserList[sc.ui]) # ""
       /\ \A k \in DOMAIN queue' : FcmToken(k[1][1]) # ""
       /\ \A j \in BagToSet(jobs') : FcmToken(j.unit[1]) # ""
       /\ \A k \in hist'.sentLife : FcmToken(k[1][1]) # ""
       /\ LET ist == getISTDate(now)
              rest == NextClass(ist, 2, 1, 1)
          IN (FcmToken(UserList[1]) = "" /\ rest.pc = "att") =>
                StartScan(EmptyBag, now) = SetToBag({ScanAt(ist, rest)})]_vars

\* a dispatch was attempted for the subject of u1 while u0, who has no push address,
\* has a class in progress
C32_Witness ==
    /\ subjects[<<"u0", "s1">>] = StandardDoc
    /\ FcmToken("u0") = ""
    /\ now = ClockAt(10, 6)
    /\ \E k \in hist.sentLife : k[1] = <<"u1", "s1">>

\* C33: a failed scan leaves nothing behind that keeps a later scan from queueing:
\* whenever the attendance read of a scan succeeds for a class whose day is
\* undecided, whose end minute has not passed on the day of the scan, and for
\* whose key no job exists (armed, sending, waiting for its grace timer or
\* evaluating), that scan arms the job of the key, whether or not earlier scans
\* failed.
C33_LaterScanQueues ==
    [][\A sc \in BagToSet(scans) :
          LET endMinutes == timeToMinutes(ScanClass(sc).end)
              startMinutes == timeToMinutes(ScanClass(sc).start)
              istNow == getISTDate(now)
              key == <<ScanUnit(sc), IsoDate(sc.ist)>>
          IN (/\ startMinutes # NaN /\ endMinutes # NaN
              /\ IsoDate(istNow) = IsoDate(sc.ist)
              /\ MinutesOfDay(istNow) <= endMinutes
              /\ ~Decided(att, ScanUnit(sc), MonthYear(sc.ist), getDate(sc.ist))
              /\ ~\E j \in BagToSet(jobs) : j.key = key
              /\ ScanReadAttendance(sc))
             => \E j \in BagToSet(jobs') : j.key = key /\ j.pc = "armed"]_vars

\* the job of the class 18:20 to 18:40 was armed by the scan of 18:31, one minute
\* after the midpoint: the scans of 18:28 and 18:29 ended before 18:31 and, the day
\* being undecided and no dispatch made, they ended in a failed read
C33_Witness ==
    /\ att = <<>>
    /\ hist.sentLife = {}
    /\ \E j \in BagToSet(jobs) : j.pc = "armed" /\ j.fireAt = ClockOn(31, 18, 31)

C35_OneTimerPerKey ==
    \A u \in Units :
        BagCardinality([j \in {k \in BagToSet(jobs) : k.key = u /\ k.pc = "armed"} |-> jobs[j]]) <= 1

\* the timers of document i in a bag of timers that are in stage pc
ScheduleTimers(b, i, pc) ==
    BagCardinality([j \in {k \in BagToSet(b) : k.key = i /\ k.pc = pc} |-> b[j]])

\* C36: in the persisted-schedule variant, (a) a schedule document whose end time
\* is ahead when the listener of the running process is first given it gets one
\* timer, set to its end time; (b) no document has more than one timer, and none
\* has a timer once its request was made in this process; (c) a timer ends only
\* by firing at the end time of its document, which makes the request, or with
\* the process; (d) a process that starts has been given no document and has
\* made no request, so that every document is given to its listener anew.
C36_OneRequestAtEnd ==
    [][/\ \A i \in DOMAIN scheduleCollection :
             (i \notin DOMAIN queue /\ i \in DOMAIN queue'
                /\ scheduleCollection[i].endTime > getISTDate(now))
             => /\ ScheduleTimers(jobs', i, "armed") = 1
                /\ \A j \in BagToSet(jobs') :
                      j.key = i => getISTDate(j.fireAt) = scheduleCollection[i].endTime
       /\ \A i \in DOMAIN scheduleCollection' :
             /\ ScheduleTimers(jobs', i, "armed") + ScheduleTimers(jobs', i, "sending") <= 1
             /\ i \in hist'.sentLife => ScheduleTimers(jobs', i, "armed") = 0
       /\ \A i \in DOMAIN scheduleCollection :
             (ScheduleTimers(jobs, i, "armed") > ScheduleTimers(jobs', i, "armed"))
             => \/ restarts' # restarts
                \/ /\ i \notin hist.sentLife /\ i \in hist'.sentLife
                   /\ getISTDate(now) = scheduleCollection[i].endTime
                   /\ ScheduleTimers(jobs', i, "sending") = 1
       /\ restarts' # restarts =>
             /\ queue' = <<>> /\ hist'.sentLife = {}
             /\ ScheduleAdded(queue', scheduleCollection') = DOMAIN scheduleCollection]_vars

\* the process that started before the end of a class has made the request of a
\* document the earlier process wrote and had armed a timer for; the earlier
\* process made none for it
C36_Witness ==
    /\ restarts = 1
    /\ \E i \in DOMAIN scheduleCollection :
          /\ i \in hist.okLife
          /\ i \notin hist.sentPrev
          /\ getISTDate(now) = scheduleCollection[i].endTime
          /\ ScheduleTimers(jobs, i, "armed") + ScheduleTimers(jobs, i, "sending") = 0

====
